---- MODULE Spec2Model ----
(***************************************************************************)
(* ElasticArmor: the restriction evaluator, the client capability model,   *)
(* the authentication/population workflow and the group membership cache   *)
(* of lib/elasticarmor/util/auth.py, the index settings inspection of      *)
(* lib/elasticarmor/request/indices_apis.py and the header handling and    *)
(* message framing of lib/elasticarmor/util/http.py.                       *)
(*                                                                         *)
(* Python strings that the code splits, strips or matches are sequences of *)
(* one-character strings.  Names that the code only compares or formats    *)
(* (addresses, user names) are TLA+ strings.  Python's True/False/None as  *)
(* a call outcome are the strings "True", "False", "None"; a raised        *)
(* exception is the name of its class.                                     *)
(***************************************************************************)
EXTENDS Integers, Sequences, FiniteSets, TLC

VARIABLES
    restriction,   \* the Restriction object under test
    client,        \* the Client of the current connection
    settings,      \* what Auth.__init__ keeps: allow_from, whether a group backend is configured
    group_cache,   \* LdapUsergroupBackend._group_cache, a set of entries, one per name at most
    now,           \* time.time(), in seconds
    fetches,       \* how often the directory has been asked for group memberships
    stored_at,     \* for each cached name, the time its entry was stored
    call,          \* the last call made and its outcome
    request,       \* the GetIndexApiRequest being inspected: indices, keywords, path
    permissions,   \* what the inspecting client is permitted: (permission, index pattern) pairs
    headers,       \* an HttpHeaders object: lower-case name -> value, repeats joined by ", "
    context,       \* an HttpContext: the request's headers and the response's (or None)
    workers,       \* per worker thread: where it is in get_group_memberships / clear_cache
    cache_lock     \* LdapUsergroupBackend._cache_lock: the workers holding it for reading, for writing

vars == <<restriction, client, settings, group_cache, now, fetches, stored_at, call,
          request, permissions, headers, context, workers, cache_lock>>

authVars == <<client, settings, group_cache, now, fetches, stored_at>>

inspectVars == <<request, permissions>>

httpVars == <<headers, context>>

lockVars == <<workers, cache_lock>>

(***************************************************************************)
(* Strings                                                                 *)
(***************************************************************************)

\* Python's None where a string is expected (no string holds the element "None")
None == <<"None">>

Whitespace == {" ", "\t", "\n"}

\* "read/logs-*"
Src_read_logs ==
    <<"r", "e", "a", "d", "/", "l", "o", "g", "s", "-", "*">>
\* "write/logs-*,-logs-secret"
Src_write_logs_excl ==
    <<"w", "r", "i", "t", "e", "/", "l", "o", "g", "s", "-", "*", ",", "-", "l", "o", "g", "s", "-", "s", "e", "c", "r", "e", "t">>
\* "write/logs-*,-logs-secret,+logs-secret-readable"
Src_write_logs_excl_incl ==
    <<"w", "r", "i", "t", "e", "/", "l", "o", "g", "s", "-", "*", ",", "-", "l", "o", "g", "s", "-", "s", "e", "c", "r", "e", "t", ",", "+", "l", "o", "g", "s", "-", "s", "e", "c", "r", "e", "t", "-", "r", "e", "a", "d", "a", "b", "l", "e">>
\* "write/ logs-* , -logs-secret"
Src_write_logs_spaced ==
    <<"w", "r", "i", "t", "e", "/", " ", "l", "o", "g", "s", "-", "*", " ", ",", " ", "-", "l", "o", "g", "s", "-", "s", "e", "c", "r", "e", "t">>
\* "read"
Src_read ==
    <<"r", "e", "a", "d">>
\* ""
Src_empty ==
    <<>>
\* "read/-logs-*"
Src_read_only_excl ==
    <<"r", "e", "a", "d", "/", "-", "l", "o", "g", "s", "-", "*">>
\* "write/logs-*/+events"
Src_write_type_only_incl ==
    <<"w", "r", "i", "t", "e", "/", "l", "o", "g", "s", "-", "*", "/", "+", "e", "v", "e", "n", "t", "s">>
\* "read/logs-*/events"
Src_read_logs_events ==
    <<"r", "e", "a", "d", "/", "l", "o", "g", "s", "-", "*", "/", "e", "v", "e", "n", "t", "s">>
\* "write/logs-*/events/*,-pw"
Src_write_fields ==
    <<"w", "r", "i", "t", "e", "/", "l", "o", "g", "s", "-", "*", "/", "e", "v", "e", "n", "t", "s", "/", "*", ",", "-", "p", "w">>
\* "read/a/b/c/d"
Src_five_segments ==
    <<"r", "e", "a", "d", "/", "a", "/", "b", "/", "c", "/", "d">>
\* "read/a-*"
Src_read_a ==
    <<"r", "e", "a", "d", "/", "a", "-", "*">>
\* "read"
Str_read ==
    <<"r", "e", "a", "d">>
\* "logs-2020"
Str_logs_2020 ==
    <<"l", "o", "g", "s", "-", "2", "0", "2", "0">>
\* "logs-app"
Str_logs_app ==
    <<"l", "o", "g", "s", "-", "a", "p", "p">>
\* "logs-secret"
Str_logs_secret ==
    <<"l", "o", "g", "s", "-", "s", "e", "c", "r", "e", "t">>
\* "logs-secret-readable"
Str_logs_secret_readable ==
    <<"l", "o", "g", "s", "-", "s", "e", "c", "r", "e", "t", "-", "r", "e", "a", "d", "a", "b", "l", "e">>
\* "a-1"
Str_a_1 ==
    <<"a", "-", "1">>
\* "events"
Str_events ==
    <<"e", "v", "e", "n", "t", "s">>
\* "msg"
Str_msg ==
    <<"m", "s", "g">>
\* "pw"
Str_pw ==
    <<"p", "w">>

\* str.split(sep): the pieces between the occurrences of sep, at least one piece
RECURSIVE Split(_, _)
Split(s, sep) ==
    IF \A k \in 1..Len(s) : s[k] # sep
    THEN <<s>>
    ELSE LET k == CHOOSE j \in 1..Len(s) : s[j] = sep /\ \A m \in 1..(j - 1) : s[m] # sep
         IN  <<SubSeq(s, 1, k - 1)>> \o Split(SubSeq(s, k + 1, Len(s)), sep)

\* str.strip(): leading and trailing whitespace removed
RECURSIVE Strip(_)
Strip(s) ==
    IF s = << >> THEN s
    ELSE IF Head(s) \in Whitespace THEN Strip(Tail(s))
    ELSE IF s[Len(s)] \in Whitespace THEN Strip(SubSeq(s, 1, Len(s) - 1))
    ELSE s

\* str.startswith(c) for a one-character prefix
StartsWith(s, c) == s # << >> /\ Head(s) = c

\* elasticarmor.util.pattern_match: shell-glob match of subject against pattern,
\* "*" any run of characters, "?" any one character, case-sensitive otherwise
RECURSIVE pattern_match(_, _)
pattern_match(pattern, subject) ==
    IF pattern = << >> THEN subject = << >>
    ELSE IF Head(pattern) = "*"
         THEN \E k \in 0..Len(subject) :
                  pattern_match(Tail(pattern), SubSeq(subject, k + 1, Len(subject)))
    ELSE IF subject = << >> THEN FALSE
    ELSE /\ Head(pattern) = "?" \/ Head(pattern) = Head(subject)
         /\ pattern_match(Tail(pattern), Tail(subject))

(***************************************************************************)
(* Restriction                                                             *)
(***************************************************************************)

\* Restriction.__init__
Restriction(raw) ==
    [ raw_restriction |-> raw,
      _parsed         |-> FALSE,
      _read_only      |-> "None",
      _index_patterns |-> << >>, _index_includes |-> << >>, _index_excludes |-> << >>,
      _type_patterns  |-> << >>, _type_includes  |-> << >>, _type_excludes  |-> << >>,
      _field_patterns |-> << >>, _field_includes |-> << >>, _field_excludes |-> << >> ]

\* the test of line 160, "not 1 > len(parts) <= 4": Python chains the comparison
\* as (1 > len(parts)) and (len(parts) <= 4)
InvalidPartCount(n) == ~(1 > n /\ n <= 4)

\* one scope loop of _parse_restriction: every stripped token is appended to the
\* excludes ("-" prefix, prefix dropped), the includes ("+") or the plain patterns
RECURSIVE ScanScope(_, _)
ScanScope(tokens, lists) ==
    IF tokens = << >> THEN lists
    ELSE LET v == Strip(Head(tokens))
         IN  ScanScope(Tail(tokens),
                 IF StartsWith(v, "-")
                 THEN [lists EXCEPT !.excludes = Append(@, Tail(v))]
                 ELSE IF StartsWith(v, "+")
                 THEN [lists EXCEPT !.includes = Append(@, Tail(v))]
                 ELSE [lists EXCEPT !.patterns = Append(@, v)])

\* lines 163-202 of _parse_restriction, the scope loops over the split source:
\* the object afterwards and the exception raised ("None" when none).  The lists
\* collected before a raise stay on the object.
ParseScopes(r, parts) ==
    LET n == Len(parts)
    IN
    IF n < 2 THEN [obj |-> r, raised |-> "IndexError"]
    ELSE
    LET ix == ScanScope(Split(parts[2], ","),
                  [patterns |-> r._index_patterns, includes |-> r._index_includes,
                   excludes |-> r._index_excludes])
        r1 == [r EXCEPT !._index_patterns = ix.patterns, !._index_includes = ix.includes,
                        !._index_excludes = ix.excludes]
    IN
    IF ix.patterns = << >> THEN [obj |-> r1, raised |-> "RestrictionError"]
    ELSE
    LET ty == IF n > 2
              THEN ScanScope(Split(parts[3], ","),
                       [patterns |-> r._type_patterns, includes |-> r._type_includes,
                        excludes |-> r._type_excludes])
              ELSE [patterns |-> r._type_patterns, includes |-> r._type_includes,
                    excludes |-> r._type_excludes]
        r2 == [r1 EXCEPT !._type_patterns = ty.patterns, !._type_includes = ty.includes,
                         !._type_excludes = ty.excludes]
    IN
    IF n > 2 /\ ty.patterns = << >> THEN [obj |-> r2, raised |-> "RestrictionError"]
    ELSE
    LET fi == IF n > 3
              THEN ScanScope(Split(parts[4], ","),
                       [patterns |-> r._field_patterns, includes |-> r._field_includes,
                        excludes |-> r._field_excludes])
              ELSE [patterns |-> r._field_patterns, includes |-> r._field_includes,
                    excludes |-> r._field_excludes]
        r3 == [r2 EXCEPT !._field_patterns = fi.patterns, !._field_includes = fi.includes,
                         !._field_excludes = fi.excludes]
    IN
    IF n > 3 /\ fi.patterns = << >> THEN [obj |-> r3, raised |-> "RestrictionError"]
    ELSE [obj |-> [r3 EXCEPT !._read_only = IF parts[1] = Str_read THEN "True" ELSE "False",
                             !._parsed = TRUE],
          raised |-> "None"]

\* variant of _parse_restriction: the part count test reads
\* "not 1 <= len(parts) <= 4" and the mode is never recorded
_parse_restriction_mode_lost(r) ==
    IF r._parsed THEN [obj |-> r, raised |-> "None"]
    ELSE LET parts == Split(r.raw_restriction, "/")
             p     == ParseScopes(r, parts)
         IN  IF ~(1 <= Len(parts) /\ Len(parts) <= 4)
             THEN [obj |-> r, raised |-> "RestrictionError"]
             ELSE IF p.raised = "None" THEN [p EXCEPT !.obj._read_only = "None"]
             ELSE p

\* variant of _parse_restriction: a failed parse marks the object as parsed
_parse_restriction_marks_failed(r) ==
    IF r._parsed THEN [obj |-> r, raised |-> "None"]
    ELSE LET parts == Split(r.raw_restriction, "/")
             p     == ParseScopes(r, parts)
         IN  IF InvalidPartCount(Len(parts))
             THEN [obj |-> [r EXCEPT !._parsed = TRUE], raised |-> "RestrictionError"]
             ELSE [obj |-> [p.obj EXCEPT !._parsed = TRUE], raised |-> p.raised]

\* Restriction._parse_restriction: the object afterwards and the exception raised
\* ("None" when it returns)
_parse_restriction(r) ==
    IF r._parsed THEN [obj |-> r, raised |-> "None"]
    ELSE LET parts == Split(r.raw_restriction, "/")
         IN  IF InvalidPartCount(Len(parts))
             THEN [obj |-> r, raised |-> "RestrictionError"]
             ELSE ParseScopes(r, parts)

\* any(pattern_match(pattern, subject) for pattern in patterns)
AnyMatch(patterns, subject) ==
    \E k \in 1..Len(patterns) : pattern_match(patterns[k], subject)

\* Restriction._apply_restriction
_apply_restriction(subject, patterns, includes, excludes) ==
    IF ~AnyMatch(patterns, subject) THEN FALSE
    ELSE IF ~AnyMatch(excludes, subject) THEN TRUE
    ELSE AnyMatch(includes, subject)

\* Restriction._check_permission on object r
_check_permission(r, index, document, field) ==
    IF \/ field = None /\ r._field_patterns # << >>
       \/ document = None /\ r._type_patterns # << >>
    THEN FALSE
    ELSE IF \/ field # None /\ r._field_patterns = << >>
            \/ document # None /\ r._type_patterns = << >>
    THEN FALSE
    ELSE IF ~_apply_restriction(index, r._index_patterns, r._index_includes, r._index_excludes)
    THEN FALSE
    ELSE IF document = None THEN TRUE
    ELSE IF ~_apply_restriction(document, r._type_patterns, r._type_includes, r._type_excludes)
    THEN FALSE
    ELSE IF field = None THEN TRUE
    ELSE _apply_restriction(field, r._field_patterns, r._field_includes, r._field_excludes)

\* a Python bool as a call outcome
Bool(b) == IF b THEN "True" ELSE "False"

\* line 235: the decision on the object p.obj that _parse_restriction left, unless
\* it raised
CheckParsed(p, index, document, field) ==
    IF p.raised # "None" THEN [obj |-> p.obj, result |-> p.raised]
    ELSE [obj |-> p.obj, result |-> Bool(_check_permission(p.obj, index, document, field))]

\* lines 240-243: as CheckParsed, false on a read-only object
CheckParsedWrite(p, index, document, field) ==
    IF p.raised # "None" THEN [obj |-> p.obj, result |-> p.raised]
    ELSE IF p.obj._read_only = "True" THEN [obj |-> p.obj, result |-> "False"]
    ELSE [obj |-> p.obj, result |-> Bool(_check_permission(p.obj, index, document, field))]

\* Restriction.permits_read: the object afterwards and the outcome of the call
permits_read(r, index, document, field) ==
    CheckParsed(_parse_restriction(r), index, document, field)

\* Restriction.permits_write: the object afterwards and the outcome of the call
permits_write(r, index, document, field) ==
    CheckParsedWrite(_parse_restriction(r), index, document, field)

(***************************************************************************)
(* LdapUsergroupBackend: the group membership cache                        *)
(***************************************************************************)

CACHE_INVALIDATION_INTERVAL == 900

\* Python's None where a name (a TLA+ string) is expected
NoneName == "<None>"

\* a list-valued attribute that may be None
NoneList == [none |-> TRUE, val |-> << >>]
Some(v) == [none |-> FALSE, val |-> v]

\* self._group_cache.get(name): the entries stored under name (none or one)
CacheGet(cache, name) == {e \in cache : e.name = name}

\* variant of get_group_memberships: an entry is still used at the second it expires
get_group_memberships_late(cache, time, name, directory) ==
    IF \E e \in CacheGet(cache, name) : e.expires >= time
    THEN [cache |-> cache, raised |-> "None", fetched |-> FALSE,
          memberships |-> (CHOOSE e \in CacheGet(cache, name) : TRUE).memberships]
    ELSE IF directory.raised # "None"
    THEN [cache |-> cache, raised |-> directory.raised, fetched |-> TRUE,
          memberships |-> << >>]
    ELSE [cache |-> (cache \ CacheGet(cache, name)) \cup
                        {[name |-> name, memberships |-> directory.memberships,
                          expires |-> time + CACHE_INVALIDATION_INTERVAL]},
          raised |-> "None", fetched |-> TRUE, memberships |-> directory.memberships]

\* LdapUsergroupBackend.get_group_memberships for client.name = name at time.time()
\* = time; directory is what bind, fetch_user_dn and search come to: an LDAPError
\* raised, or the flattened group names.  Yields the cache afterwards, the
\* exception raised ("None" when none), whether the directory was asked, and the
\* memberships returned.
get_group_memberships(cache, time, name, directory) ==
    IF \E e \in CacheGet(cache, name) : e.expires > time
    THEN [cache |-> cache, raised |-> "None", fetched |-> FALSE,
          memberships |-> (CHOOSE e \in CacheGet(cache, name) : TRUE).memberships]
    ELSE IF directory.raised # "None"
    THEN [cache |-> cache, raised |-> directory.raised, fetched |-> TRUE,
          memberships |-> << >>]
    ELSE [cache |-> (cache \ CacheGet(cache, name)) \cup
                        {[name |-> name, memberships |-> directory.memberships,
                          expires |-> time + CACHE_INVALIDATION_INTERVAL]},
          raised |-> "None", fetched |-> TRUE, memberships |-> directory.memberships]

(***************************************************************************)
(* ElasticsearchRoleBackend                                                *)
(***************************************************************************)

\* the roles of the hits that ElasticRole.from_search_result accepts, in order,
\* each role's restriction sources wrapped in Restriction objects
RECURSIVE RolesOfHits(_)
RolesOfHits(hits) ==
    IF hits = << >> THEN << >>
    ELSE LET hit   == Head(hits)
             wraps == [k \in 1..Len(hit.restrictions) |-> Restriction(hit.restrictions[k])]
         IN  (IF hit.valid THEN <<[name |-> hit.name, restrictions |-> wraps]>> ELSE << >>)
                 \o RolesOfHits(Tail(hits))

\* ElasticsearchRoleBackend.get_role_memberships, response being what
\* connection.process(request) comes to: "null" (no response), "error" (process or
\* raise_for_status raises a RequestException) or "ok" with the hits
get_role_memberships(response) ==
    IF response.kind = "null" THEN [raised |-> "None", roles |-> NoneList]
    ELSE IF response.kind = "error" THEN [raised |-> "RequestException", roles |-> NoneList]
    ELSE [raised |-> "None", roles |-> Some(RolesOfHits(response.hits))]

(***************************************************************************)
(* Client                                                                  *)
(***************************************************************************)

\* Client.__init__
Client(address, port) ==
    [ address |-> address, port |-> port, name |-> NoneName, authenticated |-> FALSE,
      username |-> NoneName, password |-> NoneName, groups |-> NoneList, roles |-> NoneList ]

\* the (role, restriction) positions in the order the generator of can_read /
\* can_write visits them
RECURSIVE Positions(_, _)
Positions(roles, k) ==
    IF k > Len(roles) THEN << >>
    ELSE [x \in 1..Len(roles[k].restrictions) |-> <<k, x>>] \o Positions(roles, k + 1)

\* the call of permits_read or permits_write on the restriction at a position
PermitsAt(roles, position, write, index, document, field) ==
    IF write
    THEN permits_write(roles[position[1]].restrictions[position[2]], index, document, field)
    ELSE permits_read(roles[position[1]].restrictions[position[2]], index, document, field)

\* any(restriction.permits_*(index, document, field) for ...) over the positions
\* left: stops at the first call that returns true or raises; the restriction
\* objects keep what each call did to them
RECURSIVE AnyPermits(_, _, _, _, _, _)
RECURSIVE AnyPermitsAfter(_, _, _, _, _, _, _)
AnyPermits(roles, positions, write, index, document, field) ==
    IF positions = << >> THEN [roles |-> roles, result |-> "False"]
    ELSE AnyPermitsAfter(roles, positions, write, index, document, field,
             PermitsAt(roles, Head(positions), write, index, document, field))

\* the rest of the iteration, out being what the call at Head(positions) came to
AnyPermitsAfter(roles, positions, write, index, document, field, out) ==
    IF out.result = "False"
    THEN AnyPermits(
             [roles EXCEPT ![Head(positions)[1]].restrictions[Head(positions)[2]] = out.obj],
             Tail(positions), write, index, document, field)
    ELSE [roles  |-> [roles EXCEPT ![Head(positions)[1]].restrictions[Head(positions)[2]]
                                        = out.obj],
          result |-> out.result]

\* the client with the roles as the iteration left them, and its outcome
WithRoles(c, out) == [client |-> [c EXCEPT !.roles = Some(out.roles)], result |-> out.result]

\* Client.can_read: the client afterwards and the outcome; iterating self.roles
\* when it is None raises TypeError
can_read(c, index, document, field) ==
    IF c.roles.none THEN [client |-> c, result |-> "TypeError"]
    ELSE WithRoles(c, AnyPermits(c.roles.val, Positions(c.roles.val, 1), FALSE,
                                 index, document, field))

\* Client.can_write
can_write(c, index, document, field) ==
    IF c.roles.none THEN [client |-> c, result |-> "TypeError"]
    ELSE WithRoles(c, AnyPermits(c.roles.val, Positions(c.roles.val, 1), TRUE,
                                 index, document, field))

(***************************************************************************)
(* Auth                                                                    *)
(***************************************************************************)

\* variant of populate: a raising group lookup resets the groups to the empty list
populate_groups_reset(c, backend, cache, time, directory, response) ==
    LET ask == backend /\ c.username # NoneName
        g   == get_group_memberships(cache, time, c.name, directory)
        c1  == IF ~ask \/ g.raised # "None" THEN [c EXCEPT !.groups = Some(<< >>)]
               ELSE [c EXCEPT !.groups = Some(g.memberships)]
        e1  == IF ~ask THEN << >>
               ELSE IF g.raised # "None"
               THEN <<"group_backend.get_group_memberships", "log.error group memberships">>
               ELSE <<"group_backend.get_group_memberships">>
        r   == get_role_memberships(response)
        out == [cache |-> IF ask THEN g.cache ELSE cache, fetched |-> ask /\ g.fetched]
    IN  IF r.raised # "None"
        THEN [client |-> c1, raised |-> "None",
              events |-> e1 \o <<"role_backend.get_role_memberships",
                                 "log.error role memberships">>] @@ out
        ELSE [client |-> [c1 EXCEPT !.roles = r.roles],
              raised |-> IF r.roles.none THEN "TypeError" ELSE "None",
              events |-> Append(e1, "role_backend.get_role_memberships")] @@ out

\* Auth.populate.  Yields the client and the cache afterwards, the exception that
\* leaves populate ("None" when it returns), the collaborators queried and the
\* errors logged in order, and whether the directory was asked.
populate(c, backend, cache, time, directory, response) ==
    LET ask == backend /\ c.username # NoneName
        g   == get_group_memberships(cache, time, c.name, directory)
        c1  == IF ~ask THEN [c EXCEPT !.groups = Some(<< >>)]
               ELSE IF g.raised # "None" THEN c
               ELSE [c EXCEPT !.groups = Some(g.memberships)]
        e1  == IF ~ask THEN << >>
               ELSE IF g.raised # "None"
               THEN <<"group_backend.get_group_memberships", "log.error group memberships">>
               ELSE <<"group_backend.get_group_memberships">>
        r   == get_role_memberships(response)
        out == [cache |-> IF ask THEN g.cache ELSE cache, fetched |-> ask /\ g.fetched]
    IN  IF c1.groups.none
        THEN [client |-> c1, raised |-> "None", events |-> e1] @@ out
        ELSE IF r.raised # "None"
        THEN [client |-> c1, raised |-> "None",
              events |-> e1 \o <<"role_backend.get_role_memberships",
                                 "log.error role memberships">>] @@ out
        ELSE \* line 88 iterates client.roles for the debug message
             [client |-> [c1 EXCEPT !.roles = r.roles],
              raised |-> IF r.roles.none THEN "TypeError" ELSE "None",
              events |-> Append(e1, "role_backend.get_role_memberships")] @@ out

\* self.allow_from.get(address, []): the entry, an empty port list when missing
AllowedPorts(allow_from, address) ==
    IF address \in DOMAIN allow_from THEN allow_from[address]
    ELSE [all |-> FALSE, ports |-> {}]

\* '%s:%u' % (hostname, port)
HostPort(hostname, port) == hostname \o ":" \o ToString(port)

\* variant of the tail of authenticate: the client is flagged before it is populated
Authenticated_flag_first(c, populate_, backend, cache, time, directory, response) ==
    LET c0 == [c EXCEPT !.authenticated = TRUE]
        p  == populate(c0, backend, cache, time, directory, response)
    IN  IF ~populate_
        THEN [client |-> c0, cache |-> cache, result |-> "True", fetched |-> FALSE,
              events |-> <<"authenticated = True">>]
        ELSE IF p.raised # "None"
        THEN [client |-> p.client, cache |-> p.cache, result |-> p.raised,
              fetched |-> p.fetched,
              events |-> <<"authenticated = True", "populate">> \o p.events]
        ELSE [client |-> p.client, cache |-> p.cache, result |-> "True",
              fetched |-> p.fetched,
              events |-> <<"authenticated = True", "populate">> \o p.events
                            \o <<"populate returned">>]

\* what authenticate does from line 56 on, the name being set
Authenticated(c, populate_, backend, cache, time, directory, response) ==
    LET p == populate(c, backend, cache, time, directory, response)
    IN  IF ~populate_
        THEN [client |-> [c EXCEPT !.authenticated = TRUE], cache |-> cache,
              result |-> "True", fetched |-> FALSE,
              events |-> <<"authenticated = True">>]
        ELSE IF p.raised # "None"
        THEN [client |-> p.client, cache |-> p.cache, result |-> p.raised,
              fetched |-> p.fetched, events |-> <<"populate">> \o p.events]
        ELSE [client |-> [p.client EXCEPT !.authenticated = TRUE], cache |-> p.cache,
              result |-> "True", fetched |-> p.fetched,
              events |-> <<"populate">> \o p.events
                            \o <<"populate returned", "authenticated = True">>]

\* variant of authenticate: the name is resolved and assigned before the port test
authenticate_name_first(c, populate_, conf, cache, time, hostname, directory, response) ==
    LET allowed_ports == AllowedPorts(conf.allow_from, c.address)
        named == [c EXCEPT !.name = IF allowed_ports.all THEN hostname
                                    ELSE HostPort(hostname, c.port)]
    IN  IF c.username = NoneName \/ c.password = NoneName
        THEN IF ~allowed_ports.all /\ c.port \notin allowed_ports.ports
             THEN [client |-> named, cache |-> cache, result |-> "False",
                   fetched |-> FALSE, events |-> << >>]
             ELSE Authenticated(named, populate_, conf.group_backend, cache, time,
                                directory, response)
        ELSE Authenticated([c EXCEPT !.name = c.username],
                           populate_, conf.group_backend, cache, time, directory, response)

\* Auth.authenticate; hostname is what socket.gethostbyaddr comes to (the address
\* itself after an IOError).  Yields the client and the cache afterwards, the
\* outcome, the steps taken in order, and whether the directory was asked.
authenticate(c, populate_, conf, cache, time, hostname, directory, response) ==
    LET allowed_ports == AllowedPorts(conf.allow_from, c.address)
    IN  IF c.username = NoneName \/ c.password = NoneName
        THEN IF ~allowed_ports.all /\ c.port \notin allowed_ports.ports
             THEN [client |-> c, cache |-> cache, result |-> "False", fetched |-> FALSE,
                   events |-> << >>]
             ELSE Authenticated(
                      [c EXCEPT !.name = IF allowed_ports.all THEN hostname
                                         ELSE HostPort(hostname, c.port)],
                      populate_, conf.group_backend, cache, time, directory, response)
        ELSE Authenticated([c EXCEPT !.name = c.username],
                           populate_, conf.group_backend, cache, time, directory, response)

(***************************************************************************)
(* GetIndexApiRequest.inspect (lib/elasticarmor/request/indices_apis.py)   *)
(***************************************************************************)

\* "_settings"
Kw_settings ==
    <<"_", "s", "e", "t", "t", "i", "n", "g", "s">>
\* "_mappings"
Kw_mappings ==
    <<"_", "m", "a", "p", "p", "i", "n", "g", "s">>
\* "_warmers"
Kw_warmers ==
    <<"_", "w", "a", "r", "m", "e", "r", "s">>
\* "_aliases"
Kw_aliases ==
    <<"_", "a", "l", "i", "a", "s", "e", "s">>
\* ""
Kws_none ==
    << >>
\* "_settings,_mappings"
Kws_settings_mappings ==
    <<"_", "s", "e", "t", "t", "i", "n", "g", "s", ",", "_", "m", "a", "p", "p", "i", "n", "g", "s">>
\* " _mappings , _settings"
Kws_spaced ==
    <<" ", "_", "m", "a", "p", "p", "i", "n", "g", "s", " ", ",", " ", "_", "s", "e", "t", "t", "i", "n", "g", "s">>
\* "_settings,_bogus"
Kws_unknown ==
    <<"_", "s", "e", "t", "t", "i", "n", "g", "s", ",", "_", "b", "o", "g", "u", "s">>
\* " "
Kws_blank ==
    <<" ">>
\* ","
Kws_comma ==
    <<",">>
\* "idx-1"
Str_idx_1 ==
    <<"i", "d", "x", "-", "1">>
\* "idx-2"
Str_idx_2 ==
    <<"i", "d", "x", "-", "2">>
\* "idx-*"
Str_idx_any ==
    <<"i", "d", "x", "-", "*">>
\* "idx-1,idx-2"
Str_idx_1_2 ==
    <<"i", "d", "x", "-", "1", ",", "i", "d", "x", "-", "2">>
\* "other"
Str_other ==
    <<"o", "t", "h", "e", "r">>
\* "idx-1,other"
Str_idx_1_other ==
    <<"i", "d", "x", "-", "1", ",", "o", "t", "h", "e", "r">>
\* "s"
Str_s ==
    <<"s">>
\* "s,_m"
Str_s_m ==
    <<"s", ",", "_", "m">>

\* sep.join(pieces)
RECURSIVE Join(_, _)
Join(sep, pieces) ==
    IF pieces = << >> THEN << >>
    ELSE IF Len(pieces) = 1 THEN pieces[1]
    ELSE pieces[1] \o sep \o Join(sep, Tail(pieces))

\* s.replace(old, new): every occurrence of old, left to right, none overlapping
\* (old is a path segment and never empty)
RECURSIVE Replace(_, _, _)
Replace(s, old, new) ==
    IF old = << >> \/ Len(s) < Len(old) THEN s
    ELSE IF SubSeq(s, 1, Len(old)) = old
    THEN new \o Replace(SubSeq(s, Len(old) + 1, Len(s)), old, new)
    ELSE <<Head(s)>> \o Replace(Tail(s), old, new)

\* s.rstrip(c)
RECURSIVE RStrip(_, _)
RStrip(s, c) ==
    IF s # << >> /\ s[Len(s)] = c THEN RStrip(SubSeq(s, 1, Len(s) - 1), c) ELSE s

\* GetIndexApiRequest.index_settings, in the order iteritems() of CPython 2 yields
\* the four entries
index_settings ==
    << [setting |-> Kw_settings, permission |-> "api/indices/get/settings"],
       [setting |-> Kw_warmers,  permission |-> "api/indices/get/warmers"],
       [setting |-> Kw_aliases,  permission |-> "api/indices/get/aliases"],
       [setting |-> Kw_mappings, permission |-> "api/indices/get/mappings"] >>

\* "setting in self.index_settings"
IsIndexSetting(kw) == \E k \in 1..Len(index_settings) : index_settings[k].setting = kw

\* a granted permission (name or the pattern api/indices/get/*) covers a wanted one
PermissionCovers(granted, wanted) ==
    \/ granted = wanted
    \/ /\ "api/indices/get/*" \in {granted, wanted}
       /\ \A p \in {granted, wanted} :
              \/ p = "api/indices/get/*"
              \/ \E k \in 1..Len(index_settings) : index_settings[k].permission = p

\* client.can(permission, index): some grant of the client covers the permission
\* on a pattern that matches the index
can(perms, permission, index) ==
    \E k \in 1..Len(perms) :
        /\ PermissionCovers(perms[k].permission, permission)
        /\ pattern_match(perms[k].pattern, index)

\* FilterString.from_string: the comma separated patterns
from_string(s) == Split(s, ",")

\* str(filter_string)
to_string(patterns) == Join(<<",">>, patterns)

\* the sequence d, x appended unless d holds it
AppendNew(d, x) == IF \E k \in 1..Len(d) : d[k] = x THEN d ELSE Append(d, x)

\* the sequence without repeats, first occurrences kept
RECURSIVE Distinct(_)
Distinct(s) ==
    IF s = << >> THEN s
    ELSE AppendNew(Distinct(SubSeq(s, 1, Len(s) - 1)), s[Len(s)])

\* the patterns of the grants in g
PatternsOf(g) == [k \in 1..Len(g) |-> g[k].pattern]

\* what of one requested pattern the client holds the permission on: the pattern
\* itself when a grant covers it, else the granted patterns that it covers
NarrowOne(perms, permission, requested) ==
    IF can(perms, permission, requested) THEN <<requested>>
    ELSE PatternsOf(SelectSeq(perms,
             LAMBDA e : /\ PermissionCovers(e.permission, permission)
                        /\ pattern_match(requested, e.pattern)))

RECURSIVE Narrow(_, _, _)
Narrow(perms, permission, filter) ==
    IF filter = << >> THEN << >>
    ELSE NarrowOne(perms, permission, Head(filter)) \o Narrow(perms, permission, Tail(filter))

\* client.create_filter_string(permission, filter): the requested patterns
\* intersected with those the client holds the permission on, None when nothing
\* is left
create_filter_string(perms, permission, filter) ==
    IF Narrow(perms, permission, filter) = << >> THEN NoneList
    ELSE Some(Distinct(Narrow(perms, permission, filter)))

\* line 53: [s.strip() for s in keywords.split(',') if s]
RECURSIVE StrippedTokens(_)
StrippedTokens(tokens) ==
    IF tokens = << >> THEN << >>
    ELSE (IF Head(tokens) = << >> THEN << >> ELSE <<Strip(Head(tokens))>>)
             \o StrippedTokens(Tail(tokens))

Keywords(req) == StrippedTokens(Split(req.keywords, ","))

\* variant of line 54: no keyword is ever found unknown
Unknown_ignored(keywords) == None

\* line 54: the first keyword that is no index setting, None when there is none
RECURSIVE Unknown(_)
Unknown(keywords) ==
    IF keywords = << >> THEN None
    ELSE IF ~IsIndexSetting(Head(keywords)) THEN Head(keywords)
    ELSE Unknown(Tail(keywords))

\* variant of lines 50-51: the path is never rewritten
RewriteIndices_skipped(req, index_filter) == req

\* lines 50-51: the request, self.indices replaced in its path by str(index_filter)
\* when the filter is not empty
RewriteIndices(req, index_filter) ==
    IF index_filter # << >>
    THEN [req EXCEPT !.path = Replace(req.path, req.indices, to_string(index_filter))]
    ELSE req

\* lines 59-60: the entries of index_settings the loop body runs for
SelectedSettings(keywords) ==
    SelectSeq(index_settings,
        LAMBDA e : keywords = << >> \/ \E k \in 1..Len(keywords) : keywords[k] = e.setting)

\* the (entry, index pattern) pairs in the order lines 59-61 visit them
RECURSIVE Matrix(_, _)
Matrix(entries, patterns) ==
    IF entries = << >> THEN << >>
    ELSE [j \in 1..Len(patterns) |-> <<Head(entries), patterns[j]>>]
             \o Matrix(Tail(entries), patterns)

\* missing_permissions.setdefault(permission, []).append(index)
SetDefaultAppend(d, permission, index) ==
    IF permission \in DOMAIN d THEN [d EXCEPT ![permission] = Append(@, index)]
    ELSE d @@ (permission :> <<index>>)

\* line 62 on one pair: a setting recorded as permitted, or a permission recorded
\* as missing for the index
CheckOne(perms, acc, entry, index) ==
    IF can(perms, entry.permission, index)
    THEN [acc EXCEPT !.permitted_settings = Append(@, entry.setting)]
    ELSE [acc EXCEPT !.missing_permissions = SetDefaultAppend(@, entry.permission, index)]

\* lines 58-65 over the pairs left
RECURSIVE CheckAll(_, _, _)
CheckAll(perms, pairs, acc) ==
    IF pairs = << >> THEN acc
    ELSE CheckAll(perms, Tail(pairs), CheckOne(perms, acc, Head(pairs)[1], Head(pairs)[2]))

NoMessage == [text |-> ""]

\* variant of lines 67-72: deny only when no setting at all was recorded as
\* permitted
Conclude_any_pass(req, keywords, checked) ==
    IF DOMAIN checked.missing_permissions # {} /\ checked.permitted_settings = << >>
    THEN [request |-> req, raised |-> "PermissionError",
          message |-> [text |-> "You are missing the following permissions: {0}",
                       hint |-> checked.missing_permissions]]
    ELSE [request |-> req, raised |-> "None", message |-> [text |-> ""]]

\* variant of lines 67-72: the permitted settings are appended whenever no keyword
\* was given
Conclude_always_suffix(req, keywords, checked) ==
    IF DOMAIN checked.missing_permissions # {}
    THEN [request |-> req, raised |-> "PermissionError",
          message |-> [text |-> "You are missing the following permissions: {0}",
                       hint |-> checked.missing_permissions]]
    ELSE IF keywords = << >>
    THEN [request |-> [req EXCEPT !.path = Join(<<"/">>,
                                     <<RStrip(req.path, "/"),
                                       Join(<<",">>, checked.permitted_settings)>>)],
          raised |-> "None", message |-> NoMessage]
    ELSE [request |-> req, raised |-> "None", message |-> NoMessage]

\* lines 67-72: deny when a permission is missing, else append the permitted
\* settings to the path when no keyword was given and fewer than four were recorded
Conclude(req, keywords, checked) ==
    IF DOMAIN checked.missing_permissions # {}
    THEN [request |-> req, raised |-> "PermissionError",
          message |-> [text |-> "You are missing the following permissions: {0}",
                       hint |-> checked.missing_permissions]]
    ELSE IF keywords = << >> /\ Len(checked.permitted_settings) < Len(index_settings)
    THEN [request |-> [req EXCEPT !.path = Join(<<"/">>,
                                     <<RStrip(req.path, "/"),
                                       Join(<<",">>, checked.permitted_settings)>>)],
          raised |-> "None", message |-> NoMessage]
    ELSE [request |-> req, raised |-> "None", message |-> NoMessage]

\* lines 53-72, req being the request after lines 47-51
InspectKeywords(req, perms, index_filter, keywords) ==
    IF Unknown(keywords) # None
    THEN [request |-> req, raised |-> "PermissionError",
          message |-> [text |-> "Unknown index setting: {0}", hint |-> Unknown(keywords)]]
    ELSE Conclude(req, keywords,
             CheckAll(perms, Matrix(SelectedSettings(keywords), index_filter),
                      [permitted_settings |-> << >>, missing_permissions |-> << >>]))

\* lines 47-72, index_filter being what create_filter_string returned
InspectFiltered(req, perms, index_filter) ==
    IF index_filter.none
    THEN [request |-> req, raised |-> "PermissionError",
          message |-> [text |-> "You are not permitted to access any settings of the given index or indices."]]
    ELSE InspectKeywords(RewriteIndices(req, index_filter.val), perms, index_filter.val,
                         Keywords(req))

\* GetIndexApiRequest.inspect for a client with the grants perms: the request
\* afterwards, the exception raised ("None" when it returns) and its message
inspect(req, perms) ==
    InspectFiltered(req, perms,
        create_filter_string(perms, "api/indices/get/*", from_string(req.indices)))

(***************************************************************************)
(* HttpHeaders and HttpContext (lib/elasticarmor/util/http.py).  An        *)
(* HttpHeaders object is its dict: lower-case header name -> value, the    *)
(* values of a repeated header joined by ", " as httplib.HTTPMessage       *)
(* reads them.                                                             *)
(***************************************************************************)

\* "Connection"
Hdr_Connection ==
    <<"C", "o", "n", "n", "e", "c", "t", "i", "o", "n">>
\* "Via"
Hdr_Via ==
    <<"V", "i", "a">>
\* "Content-Length"
Hdr_Content_Length ==
    <<"C", "o", "n", "t", "e", "n", "t", "-", "L", "e", "n", "g", "t", "h">>
\* "Transfer-Encoding"
Hdr_Transfer_Encoding ==
    <<"T", "r", "a", "n", "s", "f", "e", "r", "-", "E", "n", "c", "o", "d", "i", "n", "g">>
\* "Keep-Alive"
Hdr_Keep_Alive ==
    <<"K", "e", "e", "p", "-", "A", "l", "i", "v", "e">>
\* "Upgrade"
Hdr_Upgrade ==
    <<"U", "p", "g", "r", "a", "d", "e">>
\* "X-Hop"
Hdr_X_Hop ==
    <<"X", "-", "H", "o", "p">>
\* "Host"
Hdr_Host ==
    <<"H", "o", "s", "t">>
\* "keep-alive"
Tok_keep_alive ==
    <<"k", "e", "e", "p", "-", "a", "l", "i", "v", "e">>
\* "close"
Tok_close ==
    <<"c", "l", "o", "s", "e">>
\* "chunked"
Tok_chunked ==
    <<"c", "h", "u", "n", "k", "e", "d">>
\* "Chunked"
Val_Chunked_cased ==
    <<"C", "h", "u", "n", "k", "e", "d">>
\* "identity"
Val_identity ==
    <<"i", "d", "e", "n", "t", "i", "t", "y">>
\* "gzip"
Val_gzip ==
    <<"g", "z", "i", "p">>
\* "5"
Val_5 ==
    <<"5">>
\* "05"
Val_05 ==
    <<"0", "5">>
\* "7"
Val_7 ==
    <<"7">>
\* "-1"
Val_minus_1 ==
    <<"-", "1">>
\* "+5"
Val_plus_5 ==
    <<"+", "5">>
\* "x"
Val_x ==
    <<"x">>
\* "upgrade"
Val_upgrade ==
    <<"u", "p", "g", "r", "a", "d", "e">>
\* "x-hop"
Val_x_hop ==
    <<"x", "-", "h", "o", "p">>
\* "Keep-Alive, x-hop"
Val_keep_alive_x_hop ==
    <<"K", "e", "e", "p", "-", "A", "l", "i", "v", "e", ",", " ", "x", "-", "h", "o", "p">>
\* "timeout=5, max=100"
Val_timeout_max ==
    <<"t", "i", "m", "e", "o", "u", "t", "=", "5", ",", " ", "m", "a", "x", "=", "1", "0", "0">>
\* "300"
Val_300 ==
    <<"3", "0", "0">>
\* "websocket"
Val_websocket ==
    <<"w", "e", "b", "s", "o", "c", "k", "e", "t">>
\* "1"
Val_1 ==
    <<"1">>
\* "example.org"
Val_example ==
    <<"e", "x", "a", "m", "p", "l", "e", ".", "o", "r", "g">>
\* "1.0 a"
Via_1_0_a ==
    <<"1", ".", "0", " ", "a">>
\* "1.1"
Str_1_1 ==
    <<"1", ".", "1">>
\* "b"
Str_b ==
    <<"b">>
\* "c"
Str_c ==
    <<"c">>
\* "(armor)"
Str_armor ==
    <<"(", "a", "r", "m", "o", "r", ")">>

UpperCase ==
    <<"A", "B", "C", "D", "E", "F", "G", "H", "I", "J", "K", "L", "M",
      "N", "O", "P", "Q", "R", "S", "T", "U", "V", "W", "X", "Y", "Z">>
LowerCase ==
    <<"a", "b", "c", "d", "e", "f", "g", "h", "i", "j", "k", "l", "m",
      "n", "o", "p", "q", "r", "s", "t", "u", "v", "w", "x", "y", "z">>

\* str.lower()
LowerChar(c) ==
    IF \E k \in 1..Len(UpperCase) : UpperCase[k] = c
    THEN LowerCase[CHOOSE k \in 1..Len(UpperCase) : UpperCase[k] = c]
    ELSE c
Lower(s) == [k \in 1..Len(s) |-> LowerChar(s[k])]

\* sep occurs in s at position k
OccursAt(s, sep, k) ==
    k + Len(sep) - 1 <= Len(s) /\ SubSeq(s, k, k + Len(sep) - 1) = sep

\* "sep in s"
Contains(s, sep) == \E k \in 1..Len(s) : OccursAt(s, sep, k)

\* s.split(sep) for a separator of several characters
RECURSIVE SplitOn(_, _)
SplitOn(s, sep) ==
    IF ~Contains(s, sep) THEN <<s>>
    ELSE <<SubSeq(s, 1, (CHOOSE k \in 1..Len(s) :
                            OccursAt(s, sep, k) /\ \A j \in 1..(k - 1) : ~OccursAt(s, sep, j)) - 1)>>
         \o SplitOn(SubSeq(s, (CHOOSE k \in 1..Len(s) :
                                  OccursAt(s, sep, k) /\ \A j \in 1..(k - 1) : ~OccursAt(s, sep, j))
                                + Len(sep), Len(s)), sep)

CommaSpace == <<",", " ">>

\* httplib.HTTPMessage.addheader as readheaders calls it: the name lower-cased,
\* the value stripped, a repeated header's values joined by ", "
addheader(h, name, value) ==
    IF Lower(name) \in DOMAIN h
    THEN [h EXCEPT ![Lower(name)] = @ \o CommaSpace \o Strip(value)]
    ELSE h @@ (Lower(name) :> Strip(value))

\* "name in headers"
HasHeader(h, name) == Lower(name) \in DOMAIN h

\* the last piece of a value that holds ", "
LastValue(value) ==
    IF Contains(value, CommaSpace)
    THEN SplitOn(value, CommaSpace)[Len(SplitOn(value, CommaSpace))]
    ELSE value

\* HttpHeaders.__getitem__ for a header that exists
getitem(h, name) == LastValue(h[Lower(name)])

\* HttpHeaders.getheader / get
getheader(h, name, default) ==
    IF HasHeader(h, name) THEN LastValue(h[Lower(name)]) ELSE default

\* HttpHeaders.getheaders
getheaders(h, name) ==
    IF HasHeader(h, name) THEN SplitOn(h[Lower(name)], CommaSpace) ELSE << >>

\* del headers[name]: nothing happens when the header does not exist
delitem(h, name) == [k \in DOMAIN h \ {Lower(name)} |-> h[k]]

\* headers[name] = value: every earlier value of the header is dropped
setitem(h, name, value) == delitem(h, name) @@ (Lower(name) :> value)

\* options[option] = value on a CaseInsensitiveDict: one entry per lower-cased
\* key, the key kept as last written
PutOption(options, option, value) ==
    [k \in DOMAIN options \cup {Lower(option)} |->
        IF k = Lower(option) THEN [key |-> option, value |-> value] ELSE options[k]]

\* tuple(v.strip() for v in value.split('=')) for every piece of a Keep-Alive value
KeepAlivePairs(pieces) ==
    [k \in 1..Len(pieces) |->
        [j \in 1..Len(Split(pieces[k], "=")) |-> Strip(Split(pieces[k], "=")[j])]]

\* dict(pairs): ValueError unless every element has length 2
DictRaises(pairs) == \E k \in 1..Len(pairs) : Len(pairs[k]) # 2

\* dict(pairs): a later pair with the same key wins
DictOf(pairs) ==
    [key \in {pairs[k][1] : k \in 1..Len(pairs)} |->
        pairs[CHOOSE k \in 1..Len(pairs) :
                  pairs[k][1] = key /\ \A j \in (k + 1)..Len(pairs) : pairs[j][1] # key][2]]

\* lines 73-85: the loop over the options left; yields the headers and the
\* options afterwards and the exception raised ("None" when none)
RECURSIVE ExtractOptions(_, _, _)
RECURSIVE ExtractOption(_, _, _, _)
ExtractOptions(h, todo, options) ==
    IF todo = << >> THEN [headers |-> h, options |-> options, raised |-> "None"]
    ELSE ExtractOption(h, todo, options, Head(todo))

\* lines 74-85 for one option
ExtractOption(h, todo, options, option) ==
    IF HasHeader(h, option)
    THEN IF Lower(option) = Tok_keep_alive
         THEN IF DictRaises(KeepAlivePairs(getheaders(h, option)))
              THEN [headers |-> h, options |-> options, raised |-> "ValueError"]
              ELSE ExtractOptions(delitem(h, option), Tail(todo),
                       PutOption(options, option,
                                 DictOf(KeepAlivePairs(getheaders(h, option)))))
         ELSE ExtractOptions(delitem(h, option), Tail(todo),
                  PutOption(options, option, getitem(h, option)))
    ELSE IF Lower(option) = Tok_keep_alive \/ Lower(option) = Tok_close
    THEN ExtractOptions(h, Tail(todo), PutOption(options, option, None))
    ELSE ExtractOptions(h, Tail(todo), options)

\* variant of lines 87-88: the Connection header is kept
DropConnection_never(out) == out

\* lines 87-88: "if options: del self['Connection']"
DropConnection(out) ==
    IF out.raised = "None" /\ DOMAIN out.options # {}
    THEN [out EXCEPT !.headers = delitem(@, Hdr_Connection)]
    ELSE out

\* HttpHeaders.extract_connection_options: the headers afterwards, the options
\* returned and the exception raised ("None" when it returns)
extract_connection_options(h) ==
    DropConnection(ExtractOptions(h, getheaders(h, Hdr_Connection), << >>))

\* line 94: '{0} {1}{2}'.format(received_protocol, received_by, ' ' + comment if
\* comment else '')
FormatVia(received_protocol, received_by, comment) ==
    received_protocol \o <<" ">> \o received_by
        \o (IF comment # None /\ comment # << >> THEN <<" ">> \o comment ELSE << >>)

\* HttpHeaders.extend_via_field: the headers afterwards
extend_via_field(h, received_protocol, received_by, comment) ==
    IF getheader(h, Hdr_Via, << >>) # << >>
    THEN setitem(h, Hdr_Via, Join(CommaSpace, <<getheader(h, Hdr_Via, << >>),
                                              FormatVia(received_protocol, received_by, comment)>>))
    ELSE setitem(h, Hdr_Via, FormatVia(received_protocol, received_by, comment))

Digits == <<"0", "1", "2", "3", "4", "5", "6", "7", "8", "9">>

IsDigit(c) == \E k \in 1..Len(Digits) : Digits[k] = c

DigitValue(c) == (CHOOSE k \in 1..Len(Digits) : Digits[k] = c) - 1

\* the number a string of digits denotes
RECURSIVE DecimalValue(_)
DecimalValue(s) ==
    IF s = << >> THEN 0
    ELSE DecimalValue(SubSeq(s, 1, Len(s) - 1)) * Len(Digits) + DigitValue(s[Len(s)])

\* the digits of a stripped numeral, its sign dropped
Unsigned(s) == IF StartsWith(s, "-") \/ StartsWith(s, "+") THEN Tail(s) ELSE s

\* int(s) raises ValueError: after stripping, s is not an optional sign followed
\* by one or more digits
IntRaises(s) ==
    \/ Unsigned(Strip(s)) = << >>
    \/ \E k \in 1..Len(Unsigned(Strip(s))) : ~IsDigit(Unsigned(Strip(s))[k])

\* int(s) when it does not raise
Int_(s) ==
    IF StartsWith(Strip(s), "-") THEN 0 - DecimalValue(Unsigned(Strip(s)))
    ELSE DecimalValue(Unsigned(Strip(s)))

\* any(int(v) != content_length for v in values), "ValueError" when an int(v)
\* that is reached raises
RECURSIVE AnyDiffers(_, _)
AnyDiffers(values, content_length) ==
    IF values = << >> THEN "False"
    ELSE IF IntRaises(Head(values)) THEN "ValueError"
    ELSE IF Int_(Head(values)) # content_length THEN "True"
    ELSE AnyDiffers(Tail(values), content_length)

\* lines 142-147: the Content-Length of the message is not acceptable
BadContentLength(h) ==
    \/ IntRaises(getitem(h, Hdr_Content_Length))
    \/ Int_(getitem(h, Hdr_Content_Length)) < 0
    \/ AnyDiffers(getheaders(h, Hdr_Content_Length),
                  Int_(getitem(h, Hdr_Content_Length))) # "False"

\* variant of lines 149-152: a Transfer-Encoding next to a Content-Length passes
FramingOf_length_ignored(h, paired) ==
    IF HasHeader(h, Hdr_Content_Length) /\ BadContentLength(h) THEN FALSE
    ELSE IF HasHeader(h, Hdr_Transfer_Encoding)
    THEN ~(~paired /\ Lower(Strip(getitem(h, Hdr_Transfer_Encoding))) # Tok_chunked)
    ELSE TRUE

\* lines 138-154 on the headers h of the checked message, paired telling whether
\* the context holds a response
FramingOf(h, paired) ==
    IF HasHeader(h, Hdr_Content_Length) /\ BadContentLength(h) THEN FALSE
    ELSE IF HasHeader(h, Hdr_Transfer_Encoding)
    THEN ~(\/ HasHeader(h, Hdr_Content_Length)
           \/ ~paired /\ Lower(Strip(getitem(h, Hdr_Transfer_Encoding))) # Tok_chunked)
    ELSE TRUE

\* no response paired with a request
NoResponse == [none |-> TRUE, headers |-> << >>]

\* HttpContext.__init__
HttpContext(request_headers, response) == [request |-> request_headers, response |-> response]

\* HttpContext.has_proper_framing
has_proper_framing(ctx) ==
    IF ctx.response.none THEN FramingOf(ctx.request, FALSE)
    ELSE FramingOf(ctx.response.headers, TRUE)

(***************************************************************************)
(* Restriction objects under permits_read / permits_write                  *)
(***************************************************************************)

\* restriction sources as role documents may hold them
RestrictionSources ==
    << Src_read_logs, Src_write_logs_excl, Src_write_logs_excl_incl, Src_write_logs_spaced,
       Src_read, Src_empty, Src_read_only_excl, Src_write_type_only_incl,
       Src_read_logs_events, Src_write_fields, Src_five_segments, Src_read_a >>

\* the entities a request may name
Indices   == {Str_logs_2020, Str_logs_app, Str_logs_secret, Str_logs_secret_readable, Str_a_1}
Documents == {None, Str_events}
Fields    == {None, Str_msg, Str_pw}

NoCall == [op |-> "none"]

\* the state of the parts a specification leaves out
IdleRestriction == restriction = Restriction(<< >>)

IdleAuth ==
    /\ client = Client("", 0)
    /\ settings = [allow_from |-> << >>, group_backend |-> FALSE]
    /\ group_cache = {} /\ now = 0 /\ fetches = 0 /\ stored_at = {}

IdleInspect == request = [indices |-> << >>, keywords |-> << >>, path |-> << >>] /\ permissions = {}

IdleHttp == headers = << >> /\ context = HttpContext(<< >>, NoResponse)

IdleWorkers == workers = << >> /\ cache_lock = [readers |-> {}, writers |-> {}]

InitRestriction ==
    /\ \E k \in 1..Len(RestrictionSources) : restriction = Restriction(RestrictionSources[k])
    /\ call = NoCall
    /\ IdleAuth /\ IdleInspect /\ IdleHttp /\ IdleWorkers

\* what the call before this one on the same Restriction object came to ("none"
\* for the first call)
PreviousOutcome == IF call.op \in {"permits_read", "permits_write"} THEN call.result ELSE "none"

PermitsRead(index, document, field) ==
    LET out == permits_read(restriction, index, document, field)
    IN  /\ restriction' = out.obj
        /\ call' = [op |-> "permits_read", index |-> index, document |-> document,
                    field |-> field, result |-> out.result,
                    previous |-> PreviousOutcome]
        /\ UNCHANGED <<authVars, inspectVars, httpVars, lockVars>>

PermitsWrite(index, document, field) ==
    LET out == permits_write(restriction, index, document, field)
    IN  /\ restriction' = out.obj
        /\ call' = [op |-> "permits_write", index |-> index, document |-> document,
                    field |-> field, result |-> out.result,
                    previous |-> PreviousOutcome]
        /\ UNCHANGED <<authVars, inspectVars, httpVars, lockVars>>

NextRestriction ==
    \E index \in Indices, document \in Documents, field \in Fields :
        \/ PermitsRead(index, document, field)
        \/ PermitsWrite(index, document, field)

SpecRestriction == InitRestriction /\ [][NextRestriction]_vars

(***************************************************************************)
(* The group membership cache under lookups, clear_cache and passing time  *)
(***************************************************************************)

MaxNow == 1800
MaxFetches == 3
MaxAuthFetches == 1

\* client names looked up
CacheNames == {"alice", "bob"}

\* what a refresh comes to: an LDAPError, or the group names found
Directories ==
    { [raised |-> "LDAPError", memberships |-> << >>],
      [raised |-> "None", memberships |-> << >>],
      [raised |-> "None", memberships |-> <<"admins">>] }

\* the seconds that pass between two calls
Ticks == {CACHE_INVALIDATION_INTERVAL \div 2, CACHE_INVALIDATION_INTERVAL \div 2 - 1}

\* the store times after a call at time that left cache1 from cache0 under name
StoredAfter(cache0, cache1, name, time) ==
    IF cache1 = cache0 THEN stored_at
    ELSE {s \in stored_at : s.name # name} \cup {[name |-> name, at |-> time]}

InitCache ==
    /\ group_cache = {} /\ now = 0 /\ fetches = 0 /\ stored_at = {}
    /\ client = Client("", 0)
    /\ settings = [allow_from |-> << >>, group_backend |-> TRUE]
    /\ call = NoCall
    /\ IdleRestriction /\ IdleInspect /\ IdleHttp /\ IdleWorkers

GetGroupMemberships(name, directory) ==
    LET out == get_group_memberships(group_cache, now, name, directory)
    IN  /\ fetches < MaxFetches
        /\ group_cache' = out.cache
        /\ fetches' = IF out.fetched THEN fetches + 1 ELSE fetches
        /\ stored_at' = StoredAfter(group_cache, out.cache, name, now)
        /\ call' = [op |-> "get_group_memberships", name |-> name, raised |-> out.raised,
                    fetched |-> out.fetched, memberships |-> out.memberships]
        /\ UNCHANGED <<restriction, client, settings, now,
                     inspectVars, httpVars, lockVars>>

\* LdapUsergroupBackend.clear_cache
ClearCache ==
    /\ group_cache' = {}
    /\ stored_at' = {}
    /\ call' = [op |-> "clear_cache"]
    /\ UNCHANGED <<restriction, client, settings, now, fetches,
                     inspectVars, httpVars, lockVars>>

Tick(d) ==
    /\ now + d <= MaxNow
    /\ now' = now + d
    /\ call' = [op |-> "tick"]
    /\ UNCHANGED <<restriction, client, settings, group_cache, fetches, stored_at,
                     inspectVars, httpVars, lockVars>>

NextCache ==
    \/ \E name \in CacheNames, directory \in Directories : GetGroupMemberships(name, directory)
    \/ ClearCache
    \/ \E d \in Ticks : Tick(d)

SpecCache == InitCache /\ [][NextCache]_vars

(***************************************************************************)
(* One connection after another: authenticate, populate, can_read,         *)
(* can_write                                                               *)
(***************************************************************************)

\* where connections come from: address and port
Endpoints ==
    { <<"10.0.0.1", 8080>>, <<"10.0.0.2", 8080>>, <<"10.0.0.2", 9090>>, <<"10.0.0.3", 8080>> }
\* the credentials a request may carry: none, a user name alone, both
Credentials == {<<NoneName, NoneName>>, <<"alice", NoneName>>, <<"alice", "secret">>}

\* settings.allow_from: every port of 10.0.0.1, port 8080 of 10.0.0.2, no entry
\* for 10.0.0.3
AllowFrom ==
    [a \in {"10.0.0.1", "10.0.0.2"} |->
        IF a = "10.0.0.1" THEN [all |-> TRUE, ports |-> {}]
        ELSE [all |-> FALSE, ports |-> {8080}]]

\* what socket.gethostbyaddr(address)[0] may come to: the name the address
\* resolves to, or the address itself after an IOError
ReverseLookup(address) ==
    {address} \cup (IF address = "10.0.0.1" THEN {"gateway"} ELSE {})

Hostnames == UNION {ReverseLookup(ep[1]) : ep \in Endpoints}

\* what a refresh comes to on these connections
AuthDirectories == {d \in Directories : d.raised # "None" \/ d.memberships # << >>}

\* role documents as the backend may return them
Hit_reader  == [valid |-> TRUE, name |-> "reader", restrictions |-> <<Src_read_a>>]
Hit_nothing == [valid |-> TRUE, name |-> "nothing", restrictions |-> << >>]
Hit_broken  == [valid |-> FALSE, name |-> "", restrictions |-> << >>]

\* what connection.process(request) may come to
Responses ==
    { [kind |-> "null", hits |-> << >>],
      [kind |-> "error", hits |-> << >>],
      [kind |-> "ok", hits |-> <<Hit_broken>>],
      [kind |-> "ok", hits |-> <<Hit_reader, Hit_nothing>>] }

\* the entities asked for on a connection
AskedIndices   == {Str_a_1, Str_logs_app}
AskedDocuments == {None, Str_events}

InitAuth ==
    /\ client \in {[Client(ep[1], ep[2]) EXCEPT !.username = cr[1], !.password = cr[2]] :
                      ep \in Endpoints, cr \in Credentials}
    /\ settings \in {[allow_from |-> AllowFrom, group_backend |-> b] : b \in BOOLEAN}
    /\ group_cache = {} /\ now = 0 /\ fetches = 0 /\ stored_at = {}
    /\ call = NoCall
    /\ IdleRestriction /\ IdleInspect /\ IdleHttp /\ IdleWorkers

\* a new connection: Client(address, port), the credentials of the request set on it
Connect(address, port, username, password) ==
    /\ client' = [Client(address, port) EXCEPT !.username = username, !.password = password]
    /\ call' = [op |-> "connect"]
    /\ UNCHANGED <<restriction, settings, group_cache, now, fetches, stored_at,
                     inspectVars, httpVars, lockVars>>

Authenticate(populate_, hostname, directory, response) ==
    LET out == authenticate(client, populate_, settings, group_cache, now,
                            hostname, directory, response)
    IN  /\ hostname \in ReverseLookup(client.address)
        /\ out.fetched => fetches < MaxAuthFetches
        /\ client' = out.client
        /\ group_cache' = out.cache
        /\ fetches' = IF out.fetched THEN fetches + 1 ELSE fetches
        /\ stored_at' = StoredAfter(group_cache, out.cache, out.client.name, now)
        /\ call' = [op |-> "authenticate", populate |-> populate_, result |-> out.result,
                    events |-> out.events]
        /\ UNCHANGED <<restriction, settings, now,
                     inspectVars, httpVars, lockVars>>

Populate(directory, response) ==
    LET out == populate(client, settings.group_backend, group_cache, now,
                        directory, response)
    IN  /\ out.fetched => fetches < MaxAuthFetches
        /\ client' = out.client
        /\ group_cache' = out.cache
        /\ fetches' = IF out.fetched THEN fetches + 1 ELSE fetches
        /\ stored_at' = StoredAfter(group_cache, out.cache, client.name, now)
        /\ call' = [op |-> "populate", result |-> out.raised, events |-> out.events]
        /\ UNCHANGED <<restriction, settings, now,
                     inspectVars, httpVars, lockVars>>

CanRead(index, document, field) ==
    LET out == can_read(client, index, document, field)
    IN  /\ client' = out.client
        /\ call' = [op |-> "can_read", index |-> index, document |-> document,
                    field |-> field, result |-> out.result]
        /\ UNCHANGED <<restriction, settings, group_cache, now, fetches, stored_at,
                     inspectVars, httpVars, lockVars>>

CanWrite(index, document, field) ==
    LET out == can_write(client, index, document, field)
    IN  /\ client' = out.client
        /\ call' = [op |-> "can_write", index |-> index, document |-> document,
                    field |-> field, result |-> out.result]
        /\ UNCHANGED <<restriction, settings, group_cache, now, fetches, stored_at,
                     inspectVars, httpVars, lockVars>>

NextAuth ==
    \/ \E ep \in Endpoints, cr \in Credentials : Connect(ep[1], ep[2], cr[1], cr[2])
    \/ \E populate_ \in BOOLEAN, hostname \in Hostnames,
          directory \in AuthDirectories, response \in Responses :
            Authenticate(populate_, hostname, directory, response)
    \/ \E directory \in AuthDirectories, response \in Responses :
            Populate(directory, response)
    \/ \E index \in AskedIndices, document \in AskedDocuments :
            \/ CanRead(index, document, None)
            \/ CanWrite(index, document, None)
    \/ ClearCache

SpecAuth == InitAuth /\ [][NextAuth]_vars

(***************************************************************************)
(* Requests routed to GetIndexApiRequest and inspected                     *)
(***************************************************************************)

\* the {indices} and {keywords} a routed path may hold ('' when the path has no
\* keywords segment)
RequestedIndices ==
    {Str_idx_1, Str_idx_2, Str_idx_1_2, Str_idx_any, Str_other, Str_idx_1_other, Str_s_m}
RequestedKeywords ==
    {Kws_none, Kw_settings, Kw_mappings, Kws_settings_mappings, Kws_spaced, Kws_unknown,
     Kws_blank, Kws_comma}

\* what a client may be permitted: nothing; every index setting on idx-1 and
\* idx-2; every setting on idx-1 but only the mappings on idx-2; every setting on
\* idx-*; the settings of idx-1 alone; index statistics only; every setting on s
Grant(permission, pattern) == [permission |-> permission, pattern |-> pattern]

PermissionSets ==
    { << >>,
      <<Grant("api/indices/get/*", Str_idx_1), Grant("api/indices/get/*", Str_idx_2)>>,
      <<Grant("api/indices/get/*", Str_idx_1), Grant("api/indices/get/mappings", Str_idx_2)>>,
      <<Grant("api/indices/get/*", Str_idx_any)>>,
      <<Grant("api/indices/get/settings", Str_idx_1)>>,
      <<Grant("api/indices/stats", Str_idx_any)>>,
      <<Grant("api/indices/get/*", Str_s)>> }

\* the request as routing leaves it: the path matched against '/{indices}' or
\* '/{indices}/{keywords}'
GetIndexApiRequest(indices, keywords) ==
    [ indices |-> indices, keywords |-> keywords,
      path |-> IF keywords = << >> THEN <<"/">> \o indices
               ELSE <<"/">> \o indices \o <<"/">> \o keywords ]

IdleUnlessInspect ==
    /\ IdleRestriction /\ IdleAuth /\ IdleHttp /\ IdleWorkers

InitInspect ==
    /\ request \in {GetIndexApiRequest(i, k) : i \in RequestedIndices, k \in RequestedKeywords}
    /\ permissions \in PermissionSets
    /\ call = NoCall
    /\ IdleUnlessInspect

\* a request of a client with the grants perms is routed
Route(indices, keywords, perms) ==
    /\ request' = GetIndexApiRequest(indices, keywords)
    /\ permissions' = perms
    /\ call' = [op |-> "route"]
    /\ UNCHANGED <<restriction, authVars, httpVars, lockVars>>

\* inspect(client) runs once on a routed request, before it is dispatched
Inspect ==
    LET out == inspect(request, permissions)
    IN  /\ call.op # "inspect"
        /\ request' = out.request
        /\ call' = [op |-> "inspect", raised |-> out.raised, message |-> out.message,
                    path |-> request.path]
        /\ UNCHANGED <<permissions, restriction, authVars, httpVars, lockVars>>

NextInspect ==
    \/ \E i \in RequestedIndices, k \in RequestedKeywords, perms \in PermissionSets :
           Route(i, k, perms)
    \/ Inspect

SpecInspect == InitInspect /\ [][NextInspect]_vars

(***************************************************************************)
(* Messages read into an HttpContext and checked for their framing         *)
(***************************************************************************)

MaxOccurrences == 2

\* the framing headers a message may carry, line by line
ContentLengths == {Val_5, Val_05, Val_7, Val_minus_1, Val_x}
TransferEncodings == {Tok_chunked, Val_Chunked_cased, Val_identity}

FramingLines ==
    {<<Hdr_Content_Length, v>> : v \in ContentLengths}
        \cup {<<Hdr_Transfer_Encoding, v>> : v \in TransferEncodings}

\* the requests a response gets paired with: one without framing headers, two
\* that are not properly framed themselves
PairedRequests ==
    { << >>,
      addheader(<< >>, Hdr_Content_Length, Val_x),
      addheader(<< >>, Hdr_Transfer_Encoding, Val_identity) }

IdleUnlessHttp ==
    /\ IdleRestriction /\ IdleAuth /\ IdleInspect /\ IdleWorkers

InitFraming ==
    /\ context = HttpContext(<< >>, NoResponse)
    /\ headers = << >>
    /\ call = NoCall
    /\ IdleUnlessHttp

\* one more header line of the request is read
ReadRequestHeader(name, value) ==
    /\ context.response.none
    /\ Len(getheaders(context.request, name)) < MaxOccurrences
    /\ context' = [context EXCEPT !.request = addheader(@, name, value)]
    /\ call' = [op |-> "readheaders"]
    /\ UNCHANGED <<headers, restriction, authVars, inspectVars, lockVars>>

\* a response is paired with the request
Respond ==
    /\ context.response.none
    /\ context.request \in PairedRequests
    /\ context' = HttpContext(context.request, [none |-> FALSE, headers |-> << >>])
    /\ call' = [op |-> "respond"]
    /\ UNCHANGED <<headers, restriction, authVars, inspectVars, lockVars>>

\* one more header line of the response is read
ReadResponseHeader(name, value) ==
    /\ ~context.response.none
    /\ Len(getheaders(context.response.headers, name)) < MaxOccurrences
    /\ context' = [context EXCEPT !.response.headers = addheader(@, name, value)]
    /\ call' = [op |-> "readheaders"]
    /\ UNCHANGED <<headers, restriction, authVars, inspectVars, lockVars>>

HasProperFraming ==
    /\ call' = [op |-> "has_proper_framing", result |-> Bool(has_proper_framing(context))]
    /\ UNCHANGED <<context, headers, restriction, authVars, inspectVars, lockVars>>

NextFraming ==
    \/ \E line \in FramingLines : ReadRequestHeader(line[1], line[2])
    \/ Respond
    \/ \E line \in FramingLines : ReadResponseHeader(line[1], line[2])
    \/ HasProperFraming

SpecFraming == InitFraming /\ [][NextFraming]_vars

(***************************************************************************)
(* An HttpHeaders object read from the wire, stripped of its connection    *)
(* options and extended by a Via entry                                     *)
(***************************************************************************)

MaxHeaderLines == 3

\* the header lines a message may carry
HeaderLines ==
    { <<Hdr_Connection, Tok_keep_alive>>, <<Hdr_Connection, Tok_close>>,
      <<Hdr_Connection, Val_upgrade>>, <<Hdr_Connection, Val_keep_alive_x_hop>>,
      <<Hdr_Keep_Alive, Val_timeout_max>>, <<Hdr_Keep_Alive, Val_300>>,
      <<Hdr_Upgrade, Val_websocket>>, <<Hdr_X_Hop, Val_1>>,
      <<Hdr_Host, Val_example>>, <<Hdr_Via, Via_1_0_a>> }

HeaderNames == <<Hdr_Connection, Hdr_Keep_Alive, Hdr_Upgrade, Hdr_X_Hop, Hdr_Host, Hdr_Via>>

\* how many values the headers hold under the first n names
RECURSIVE ValuesHeld(_, _)
ValuesHeld(h, n) ==
    IF n = 0 THEN 0 ELSE ValuesHeld(h, n - 1) + Len(getheaders(h, HeaderNames[n]))

\* what this proxy may add to Via: protocol, pseudonym, comment
ViaFields == {<<Str_1_1, Str_b, None>>, <<Str_1_1, Str_c, Str_armor>>}

InitHeaders ==
    /\ headers = << >>
    /\ context = HttpContext(<< >>, NoResponse)
    /\ call = NoCall
    /\ IdleUnlessHttp

\* one more header line is read
ReadHeader(name, value) ==
    /\ ValuesHeld(headers, Len(HeaderNames)) < MaxHeaderLines
    /\ headers' = addheader(headers, name, value)
    /\ call' = [op |-> "readheaders"]
    /\ UNCHANGED <<context, restriction, authVars, inspectVars, lockVars>>

ExtractConnectionOptions ==
    LET out == extract_connection_options(headers)
    IN  /\ headers' = out.headers
        /\ call' = [op |-> "extract_connection_options", raised |-> out.raised,
                    options |-> out.options, before |-> headers]
        /\ UNCHANGED <<context, restriction, authVars, inspectVars, lockVars>>

ExtendViaField(received_protocol, received_by, comment) ==
    /\ ValuesHeld(headers, Len(HeaderNames)) <= MaxHeaderLines
    /\ headers' = extend_via_field(headers, received_protocol, received_by, comment)
    /\ call' = [op |-> "extend_via_field", before |-> headers,
                entry |-> FormatVia(received_protocol, received_by, comment)]
    /\ UNCHANGED <<context, restriction, authVars, inspectVars, lockVars>>

NextHeaders ==
    \/ \E line \in HeaderLines : ReadHeader(line[1], line[2])
    \/ ExtractConnectionOptions
    \/ \E via \in ViaFields : ExtendViaField(via[1], via[2], via[3])

SpecHeaders == InitHeaders /\ [][NextHeaders]_vars

(***************************************************************************)
(* Several workers sharing one LdapUsergroupBackend: get_group_memberships *)
(* and clear_cache step by step under the cache lock                       *)
(***************************************************************************)

Workers == {1, 2}

\* the seconds that pass between two steps of the workers
WorkerTicks == {CACHE_INVALIDATION_INTERVAL}

\* a worker outside of the backend
Outside == [pc |-> "idle", name |-> NoneName, at |-> 0, memberships |-> << >>]

\* ReadWriteLock(): nobody holds it
ReadWriteLock == [readers |-> {}, writers |-> {}]

\* readContext entered by worker w: granted unless a writer holds the lock
acquireRead(lock, w) ==
    [granted |-> lock.writers = {}, lock |-> [lock EXCEPT !.readers = @ \cup {w}]]

\* writeContext entered by worker w, also as an upgrade of its own read lock:
\* granted when no other worker holds the lock for reading or writing
acquireWrite(lock, w) ==
    [granted |-> lock.readers \ {w} = {} /\ lock.writers = {},
     lock |-> [lock EXCEPT !.writers = @ \cup {w}]]

\* every context of worker w left
release(lock, w) == [readers |-> lock.readers \ {w}, writers |-> lock.writers \ {w}]

\* variant of Protect: the method runs without the read lock
Protect_unlocked(lock, w) == [granted |-> TRUE, lock |-> lock]

\* @Protector('_cache_lock') around get_group_memberships: the method runs under
\* the read lock
Protect(lock, w) == acquireRead(lock, w)

\* variant of EnterRefresh: the refresh does not take the write context
EnterRefresh_unlocked(lock, w) == [granted |-> TRUE, lock |-> lock]

\* with self._cache_lock.writeContext: around the refresh
EnterRefresh(lock, w) == acquireWrite(lock, w)

\* variant of CacheFresh: no entry is ever taken as valid
CacheFresh_never(cache, name, time) == FALSE

\* membership_cache is not None and membership_cache['expires'] > now
CacheFresh(cache, name, time) == \E e \in CacheGet(cache, name) : e.expires > time

\* self._group_cache[client.name] = {'memberships': ..., 'expires': now + interval}
CachePut(cache, name, memberships, time) ==
    (cache \ CacheGet(cache, name)) \cup
        {[name |-> name, memberships |-> memberships,
          expires |-> time + CACHE_INVALIDATION_INTERVAL]}

InitWorkers ==
    /\ workers = [w \in Workers |-> Outside]
    /\ cache_lock = ReadWriteLock
    /\ group_cache = {} /\ now = 0 /\ fetches = 0 /\ stored_at = {}
    /\ client = Client("", 0)
    /\ settings = [allow_from |-> << >>, group_backend |-> TRUE]
    /\ call = NoCall
    /\ IdleRestriction /\ IdleInspect /\ IdleHttp

\* worker w calls get_group_memberships for client.name = name
CallGetGroupMemberships(w, name) ==
    /\ workers[w].pc = "idle"
    /\ workers' = [workers EXCEPT ![w] = [Outside EXCEPT !.pc = "protector", !.name = name]]
    /\ UNCHANGED <<restriction, authVars, call, inspectVars, httpVars, cache_lock>>

\* the Protector lets the worker into the method
EnterProtected(w) ==
    LET out == Protect(cache_lock, w)
    IN  /\ workers[w].pc = "protector"
        /\ out.granted
        /\ cache_lock' = out.lock
        /\ workers' = [workers EXCEPT ![w].pc = "lookup"]
        /\ UNCHANGED <<restriction, authVars, call, inspectVars, httpVars>>

\* the cache map and the clock are read
Lookup(w) ==
    /\ workers[w].pc = "lookup"
    /\ workers' = [workers EXCEPT
          ![w].at = now,
          ![w].pc = IF CacheFresh(group_cache, workers[w].name, now)
                    THEN "hit" ELSE "writeContext",
          ![w].memberships = IF CacheFresh(group_cache, workers[w].name, now)
                             THEN (CHOOSE e \in CacheGet(group_cache, workers[w].name) : TRUE).memberships
                             ELSE << >>]
    /\ UNCHANGED <<restriction, authVars, call, inspectVars, httpVars, cache_lock>>

\* the cached memberships are returned
ReturnHit(w) ==
    /\ workers[w].pc = "hit"
    /\ cache_lock' = release(cache_lock, w)
    /\ workers' = [workers EXCEPT ![w] = Outside]
    /\ UNCHANGED <<restriction, authVars, call, inspectVars, httpVars>>

\* the refresh begins
BeginRefresh(w) ==
    LET out == EnterRefresh(cache_lock, w)
    IN  /\ workers[w].pc = "writeContext"
        /\ out.granted
        /\ cache_lock' = out.lock
        /\ workers' = [workers EXCEPT ![w].pc = "bind"]
        /\ UNCHANGED <<restriction, authVars, call, inspectVars, httpVars>>

\* self.bind()
Bind(w) ==
    /\ workers[w].pc = "bind"
    /\ workers' = [workers EXCEPT ![w].pc = "search"]
    /\ UNCHANGED <<restriction, authVars, call, inspectVars, httpVars, cache_lock>>

\* fetch_user_dn and search: an LDAPError leaves the method, else the group
\* names are flattened
Search(w, directory) ==
    /\ workers[w].pc = "search"
    /\ IF directory.raised # "None"
       THEN /\ workers' = [workers EXCEPT ![w] = Outside]
            /\ cache_lock' = release(cache_lock, w)
       ELSE /\ workers' = [workers EXCEPT ![w].pc = "store",
                                          ![w].memberships = directory.memberships]
            /\ UNCHANGED cache_lock
    /\ UNCHANGED <<restriction, authVars, call, inspectVars, httpVars>>

\* the entry is stored; stored_at keeps, per name, the clock reading the entry
\* was stored under and the worker that stored it
Store(w) ==
    /\ workers[w].pc = "store"
    /\ group_cache' = CachePut(group_cache, workers[w].name, workers[w].memberships,
                               workers[w].at)
    /\ stored_at' = {s \in stored_at : s.name # workers[w].name}
                        \cup {[name |-> workers[w].name, at |-> workers[w].at, by |-> w]}
    /\ workers' = [workers EXCEPT ![w].pc = "unbind"]
    /\ UNCHANGED <<restriction, client, settings, now, fetches, call,
                   inspectVars, httpVars, cache_lock>>

\* self.unbind(), then the contexts are left and the memberships returned
Unbind(w) ==
    /\ workers[w].pc = "unbind"
    /\ cache_lock' = release(cache_lock, w)
    /\ workers' = [workers EXCEPT ![w] = Outside]
    /\ UNCHANGED <<restriction, authVars, call, inspectVars, httpVars>>

\* worker w calls clear_cache
CallClearCache(w) ==
    /\ workers[w].pc = "idle"
    /\ workers' = [workers EXCEPT ![w].pc = "clear_cache"]
    /\ UNCHANGED <<restriction, authVars, call, inspectVars, httpVars, cache_lock>>

\* with self._cache_lock.writeContext: in clear_cache
EnterClear(w) ==
    LET out == acquireWrite(cache_lock, w)
    IN  /\ workers[w].pc = "clear_cache"
        /\ out.granted
        /\ cache_lock' = out.lock
        /\ workers' = [workers EXCEPT ![w].pc = "clearing"]
        /\ UNCHANGED <<restriction, authVars, call, inspectVars, httpVars>>

\* self._group_cache.clear()
Clear(w) ==
    /\ workers[w].pc = "clearing"
    /\ group_cache' = {}
    /\ stored_at' = {}
    /\ cache_lock' = release(cache_lock, w)
    /\ workers' = [workers EXCEPT ![w] = Outside]
    /\ UNCHANGED <<restriction, client, settings, now, fetches, call,
                   inspectVars, httpVars>>

NextWorkers ==
    \/ \E w \in Workers, name \in CacheNames : CallGetGroupMemberships(w, name)
    \/ \E w \in Workers : EnterProtected(w)
    \/ \E w \in Workers : Lookup(w)
    \/ \E w \in Workers : ReturnHit(w)
    \/ \E w \in Workers : BeginRefresh(w)
    \/ \E w \in Workers : Bind(w)
    \/ \E w \in Workers, directory \in Directories : Search(w, directory)
    \/ \E w \in Workers : Store(w)
    \/ \E w \in Workers : Unbind(w)
    \/ \E w \in Workers : CallClearCache(w)
    \/ \E w \in Workers : EnterClear(w)
    \/ \E w \in Workers : Clear(w)
    \/ \E d \in WorkerTicks : Tick(d)

SpecWorkers == InitWorkers /\ [][NextWorkers]_vars

(***************************************************************************)
(* The restriction grammar as specified: mode/index[/type[/field]], every  *)
(* supplied scope with at least one plain pattern                          *)
(***************************************************************************)

NoLists == [patterns |-> << >>, includes |-> << >>, excludes |-> << >>]

SourceParts(raw) == Split(raw, "/")

SourceMode(raw) == SourceParts(raw)[1]

\* the patterns of scope k (1 index, 2 type, 3 field) of a source; none when absent
SourceScope(raw, k) ==
    IF Len(SourceParts(raw)) > k
    THEN ScanScope(Split(SourceParts(raw)[k + 1], ","), NoLists)
    ELSE NoLists

WellFormedSource(raw) ==
    /\ Len(SourceParts(raw)) \in 1..4
    /\ \A k \in 1..(Len(SourceParts(raw)) - 1) : SourceScope(raw, k).patterns # << >>

\* the tier check as specified
TierPasses(subject, scope) ==
    /\ AnyMatch(scope.patterns, subject)
    /\ ~AnyMatch(scope.excludes, subject) \/ AnyMatch(scope.includes, subject)

\* a check names a type (field) exactly when the source has a type (field) scope
ScopePresenceHolds(raw, document, field) ==
    /\ (document # None) <=> (Len(SourceParts(raw)) > 2)
    /\ (field # None) <=> (Len(SourceParts(raw)) > 3)

\* the access decision as specified
ReferenceDecision(raw, index, document, field) ==
    /\ ScopePresenceHolds(raw, document, field)
    /\ TierPasses(index, SourceScope(raw, 1))
    /\ document = None \/ TierPasses(document, SourceScope(raw, 2))
    /\ field = None \/ TierPasses(field, SourceScope(raw, 3))

IsPermitsCall == call.op \in {"permits_read", "permits_write"}

(***************************************************************************)
(* Claims about Restriction (checked under SpecRestriction)                *)
(***************************************************************************)

C2_WellFormedSourceParses ==
    (IsPermitsCall /\ WellFormedSource(restriction.raw_restriction)) =>
        /\ call.result \in {"True", "False"}
        /\ restriction.raw_restriction = Src_read_logs =>
              /\ (call.op = "permits_read" /\ call.index = Str_logs_2020
                    /\ call.document = None /\ call.field = None) => call.result = "True"
              /\ (call.op = "permits_read" /\ call.index = Str_logs_2020
                    /\ call.document = Str_events /\ call.field = None) => call.result = "False"
              /\ call.op = "permits_write" => call.result = "False"

\* C3: on a well-formed restriction the decision of permits_read, and of
\* permits_write unless the mode is "read", equals the specified decision:
\* scope presence, then the index, type and field tiers in order, each
\* "some plain pattern matches and (no exclude matches or some include matches)".
C3_DecisionEqualsReference ==
    (/\ IsPermitsCall
     /\ WellFormedSource(restriction.raw_restriction)
     /\ call.op = "permits_write" => SourceMode(restriction.raw_restriction) # Str_read)
        => call.result = Bool(ReferenceDecision(restriction.raw_restriction,
                                                call.index, call.document, call.field))

\* C4: on a well-formed restriction a check that names a type (field) the
\* restriction has no scope for, or omits a type (field) the restriction has a
\* scope for, is denied: the call returns false.
C4_ScopePresenceDenies ==
    (/\ IsPermitsCall
     /\ WellFormedSource(restriction.raw_restriction)
     /\ ~ScopePresenceHolds(restriction.raw_restriction, call.document, call.field))
        => call.result = "False"

(***************************************************************************)
(* Claims about Client and Auth (checked under SpecAuth)                   *)
(***************************************************************************)

IsCanCall == call.op \in {"can_read", "can_write"}

\* every restriction of these roles has a well-formed source
AllWellFormed(roles) ==
    \A k \in 1..Len(roles) : \A x \in 1..Len(roles[k].restrictions) :
        WellFormedSource(roles[k].restrictions[x].raw_restriction)

\* some restriction of some role grants the access, as specified
SomeRestrictionGrants(roles, write, index, document, field) ==
    \E k \in 1..Len(roles) : \E x \in 1..Len(roles[k].restrictions) :
        /\ ReferenceDecision(roles[k].restrictions[x].raw_restriction, index, document, field)
        /\ write => SourceMode(roles[k].restrictions[x].raw_restriction) # Str_read

\* C5: for a client with a role list (of well-formed restrictions), can_read
\* (can_write) is true if and only if at least one restriction of at least one
\* role permits the read (write); a role that grants nothing cancels no grant.
C5_CanAccessIffSomeRestrictionPermits ==
    (IsCanCall /\ ~client.roles.none /\ AllWellFormed(client.roles.val)) =>
        call.result = Bool(SomeRestrictionGrants(client.roles.val, call.op = "can_write",
                                                 call.index, call.document, call.field))

\* C6: for a client whose roles are None, can_read and can_write return false
\* and never raise.
C6_NullRolesDenyWithoutRaising ==
    (IsCanCall /\ client.roles.none) => call.result = "False"

\* the allow_from map has an entry for the client's address that is null (any
\* port) or holds the client's port
PortAllowed ==
    /\ client.address \in DOMAIN settings.allow_from
    /\ \/ settings.allow_from[client.address].all
       \/ client.port \in settings.allow_from[client.address].ports

\* C7: authenticate on a client without credentials returns true if and only if
\* the allow_from map allows the client's address and port, and returns false
\* when the entry is missing or is a port set without the client's port.
C7_AddressAuthentication ==
    (call.op = "authenticate" /\ (client.username = NoneName \/ client.password = NoneName))
        => /\ call.result = "True" <=> PortAllowed
           /\ ~PortAllowed => call.result = "False"

\* C8: an authenticate call that returns false has changed nothing of the client
\* and has called neither the group backend nor the role backend.
C8_RefusalLeavesClientAlone ==
    [][ (call'.op = "authenticate" /\ call'.result = "False")
            => /\ client' = client
               /\ call'.events = << >>
               /\ group_cache' = group_cache /\ fetches' = fetches ]_vars

\* C8 witness: authenticate has returned false on a client that is still as
\* Client.__init__ left it.
C8_Witness ==
    /\ call.op = "authenticate" /\ call.result = "False"
    /\ client.name = NoneName /\ ~client.authenticated
    /\ client.groups.none /\ client.roles.none

\* in events, populate has returned before the authenticated flag is set
PopulateFinishedFirst(events) ==
    \E k \in 1..Len(events) :
        /\ events[k] = "populate returned"
        /\ \A j \in 1..Len(events) : events[j] = "authenticated = True" => j > k

\* C9: on one client, authenticated never goes back from true to false, and it
\* becomes true only in an authenticate call that returns true, after the
\* population step of that call (if requested) has finished.
C9_AuthenticatedIsTerminal ==
    [][ /\ (client.authenticated /\ call'.op # "connect") => client'.authenticated
        /\ (~client.authenticated /\ client'.authenticated)
              => /\ call'.op = "authenticate" /\ call'.result = "True"
                 /\ call'.populate => PopulateFinishedFirst(call'.events) ]_vars

\* C9 witness: an authenticate call with population has returned true and the
\* client is authenticated, its roles populated.
C9_Witness ==
    /\ call.op = "authenticate" /\ call.populate /\ call.result = "True"
    /\ client.authenticated /\ ~client.roles.none

IsPopulation == call.op \in {"populate", "authenticate"}

Logged(event) == \E k \in 1..Len(call.events) : call.events[k] = event

\* the population of the last call asked the role backend and the fetch raised
RoleFetchFailed == IsPopulation /\ Logged("log.error role memberships")

\* the population of the last call asked the directory and the lookup raised
GroupFetchFailed == IsPopulation /\ Logged("log.error group memberships")

\* the population of the last call got None from the role backend
RoleFetchUndetermined ==
    /\ IsPopulation
    /\ Logged("role_backend.get_role_memberships")
    /\ ~Logged("log.error role memberships")
    /\ client.roles.none

\* the client's roles hold no restriction
HoldsNoRestriction(c) ==
    c.roles.none \/ \A k \in 1..Len(c.roles.val) : c.roles.val[k].restrictions = << >>

\* C11: after a population whose role fetch failed with an error the client
\* holds no grants: its roles hold no restriction, also when an earlier
\* population had assigned roles, and can_read and can_write return false for
\* every input.
C11_FailedRoleFetchLeavesNoGrants ==
    RoleFetchFailed =>
        /\ HoldsNoRestriction(client)
        /\ \A index \in AskedIndices, document \in AskedDocuments :
              /\ can_read(client, index, document, None).result = "False"
              /\ can_write(client, index, document, None).result = "False"

\* C12: a directory error, a transport error of the role backend or a null
\* response of the role backend never leaves populate or authenticate as an
\* exception: populate returns, authenticate returns true, and the groups
\* (roles) whose fetch failed are None or empty.
C12_InfrastructureFailuresDegrade ==
    (GroupFetchFailed \/ RoleFetchFailed \/ RoleFetchUndetermined) =>
        /\ call.result = (IF call.op = "populate" THEN "None" ELSE "True")
        /\ GroupFetchFailed => (client.groups.none \/ client.groups.val = << >>)
        /\ (RoleFetchFailed \/ RoleFetchUndetermined)
              => (client.roles.none \/ client.roles.val = << >>)

(***************************************************************************)
(* Claims about the membership cache (checked under SpecCache)             *)
(***************************************************************************)

\* C10: once a lookup has stored an entry for a name at time t0, a later lookup
\* for that name before t0 + 900 returns the stored memberships without asking
\* the directory, and a lookup at or after t0 + 900 asks it exactly once.
C10_CacheTTL ==
    [][ call'.op = "get_group_memberships" =>
            \A s \in stored_at : s.name = call'.name =>
                /\ now < s.at + 900 =>
                      /\ fetches' = fetches
                      /\ call'.raised = "None"
                      /\ \A e \in CacheGet(group_cache, s.name) :
                            call'.memberships = e.memberships
                /\ now >= s.at + 900 => fetches' = fetches + 1 ]_vars

\* C10 witness: a second fetch for a name has just stored a new entry, 900
\* seconds or more after the start.
C10_Witness ==
    /\ call.op = "get_group_memberships" /\ call.fetched /\ call.raised = "None"
    /\ fetches = 2 /\ now >= 900
    /\ \E s \in stored_at : s.name = call.name /\ s.at = now

(***************************************************************************)
(* Claims about GetIndexApiRequest.inspect (checked under SpecInspect)     *)
(***************************************************************************)

IsInspectCall == call.op = "inspect"

\* the requested index patterns intersected with those the client holds any
\* settings-read permission on
NarrowedIndices ==
    create_filter_string(permissions, "api/indices/get/*", from_string(request.indices))

KnownKeywords == {index_settings[k].setting : k \in 1..Len(index_settings)}

\* the keywords the request names
GivenKeywords == {Keywords(request)[k] : k \in 1..Len(Keywords(request))}

\* the explicit list, or all four when none is given
SelectedKeywords == IF GivenKeywords = {} THEN KnownKeywords ELSE GivenKeywords

PermissionOf(keyword) ==
    index_settings[CHOOSE k \in 1..Len(index_settings) :
                       index_settings[k].setting = keyword].permission

\* the (permission, index pattern) pairs of the matrix that the client lacks
MissingPairs ==
    { pair \in {PermissionOf(kw) : kw \in SelectedKeywords}
                  \X {NarrowedIndices.val[j] : j \in 1..Len(NarrowedIndices.val)} :
          ~can(permissions, pair[1], pair[2]) }

\* the (permission, index) pairs an error message names
HintPairs(hint) == UNION {{<<p, hint[p][j]>> : j \in 1..Len(hint[p])} : p \in DOMAIN hint}

MissingText == "You are missing the following permissions: {0}"

\* C13: on a request whose keywords are all known and whose narrowed index
\* patterns are not empty, inspect raises PermissionError naming every missing
\* (permission, index) pair as soon as one selected keyword's permission is
\* missing on one narrowed pattern, and returns only if none is missing.
C13_AllOrNothing ==
    (IsInspectCall /\ ~NarrowedIndices.none /\ GivenKeywords \subseteq KnownKeywords) =>
        /\ MissingPairs # {} =>
              /\ call.raised = "PermissionError"
              /\ call.message.text = MissingText
              /\ HintPairs(call.message.hint) = MissingPairs
        /\ call.raised = "None" => MissingPairs = {}

\* C13 witness: every setting permitted on idx-1 but only the mappings on idx-2,
\* both indices requested, no keyword: denied, the settings permission named
\* with idx-2 alone.
C13_Witness ==
    /\ IsInspectCall /\ call.raised = "PermissionError" /\ call.message.text = MissingText
    /\ request.indices = Str_idx_1_2 /\ request.keywords = Kws_none
    /\ permissions = <<Grant("api/indices/get/*", Str_idx_1),
                       Grant("api/indices/get/mappings", Str_idx_2)>>
    /\ "api/indices/get/settings" \in DOMAIN call.message.hint
    /\ call.message.hint["api/indices/get/settings"] = <<Str_idx_2>>
    /\ "api/indices/get/mappings" \notin DOMAIN call.message.hint

\* the index segment of a path '/{indices}' or '/{indices}/{keywords}'
IndexSegment(path) == Split(path, "/")[2]

\* C14: inspect raises PermissionError when the requested index patterns and
\* the patterns the client holds any settings-read permission on have nothing in
\* common; when what they have in common is narrower than what was requested,
\* a request that inspect lets through carries it as its index segment.
C14_NarrowOrDeny ==
    IsInspectCall =>
        /\ NarrowedIndices.none =>
              /\ call.raised = "PermissionError"
              /\ call.message.text =
                     "You are not permitted to access any settings of the given index or indices."
        /\ (/\ ~NarrowedIndices.none
            /\ NarrowedIndices.val # from_string(request.indices)
            /\ call.raised = "None")
              => IndexSegment(request.path) = to_string(NarrowedIndices.val)

\* C14 witness: idx-1,other requested by a client permitted on idx-1 only: the
\* request passes with the index segment idx-1.
C14_Witness ==
    /\ IsInspectCall /\ call.raised = "None"
    /\ request.indices = Str_idx_1_other
    /\ IndexSegment(call.path) = Str_idx_1_other
    /\ IndexSegment(request.path) = Str_idx_1

\* the keyword list names something that is none of the four index settings
HasUnknownKeyword ==
    \E k \in 1..Len(Split(request.keywords, ",")) :
        /\ Split(request.keywords, ",")[k] # << >>
        /\ Strip(Split(request.keywords, ",")[k]) \notin KnownKeywords

\* C15: inspect raises PermissionError on every request whose keyword list
\* holds a keyword outside _settings, _mappings, _warmers, _aliases, whatever the
\* client is permitted.
C15_UnknownKeywordDenies ==
    (IsInspectCall /\ HasUnknownKeyword) => call.raised = "PermissionError"

\* C15 witness: _settings,_bogus asked of idx-1 by a client permitted every
\* setting on it: denied as an unknown index setting.
C15_Witness ==
    /\ IsInspectCall /\ call.raised = "PermissionError"
    /\ call.message.text = "Unknown index setting: {0}"
    /\ request.keywords = Kws_unknown /\ request.indices = Str_idx_1
    /\ can(permissions, "api/indices/get/settings", Str_idx_1)

(***************************************************************************)
(* Claims about HttpContext (checked under SpecFraming)                    *)
(***************************************************************************)

\* the headers of the checked message: the response's when one is paired, else
\* the request's
CheckedHeaders ==
    IF context.response.none THEN context.request ELSE context.response.headers

\* every occurrence of Content-Length is a non-negative integer and all are equal
ContentLengthConsistent(h) ==
    /\ \A k \in 1..Len(getheaders(h, Hdr_Content_Length)) :
           ~IntRaises(getheaders(h, Hdr_Content_Length)[k])
    /\ \A k \in 1..Len(getheaders(h, Hdr_Content_Length)) :
           /\ Int_(getheaders(h, Hdr_Content_Length)[k]) >= 0
           /\ \A j \in 1..Len(getheaders(h, Hdr_Content_Length)) :
                  Int_(getheaders(h, Hdr_Content_Length)[j])
                      = Int_(getheaders(h, Hdr_Content_Length)[k])

\* the framing rules as specified
ProperFraming(h, paired) ==
    /\ HasHeader(h, Hdr_Content_Length) => ContentLengthConsistent(h)
    /\ ~(HasHeader(h, Hdr_Content_Length) /\ HasHeader(h, Hdr_Transfer_Encoding))
    /\ (~paired /\ HasHeader(h, Hdr_Transfer_Encoding))
           => Lower(Strip(getitem(h, Hdr_Transfer_Encoding))) = Tok_chunked

\* C16: has_proper_framing returns true exactly when, on the checked message,
\* a present Content-Length is a non-negative integer equal in all its
\* occurrences, Content-Length and Transfer-Encoding are not both present, and,
\* with no response paired, a present Transfer-Encoding is chunked.
C16_ProperFraming ==
    call.op = "has_proper_framing" =>
        call.result = Bool(ProperFraming(CheckedHeaders, ~context.response.none))

\* C16 witness: a request with Transfer-Encoding: identity and Content-Length: 5,
\* no response paired, has been found improperly framed.
C16_Witness ==
    /\ call.op = "has_proper_framing" /\ call.result = "False"
    /\ context.response.none
    /\ context.request = addheader(addheader(<< >>, Hdr_Transfer_Encoding, Val_identity),
                                   Hdr_Content_Length, Val_5)

(***************************************************************************)
(* Claims about HttpHeaders (checked under SpecHeaders)                    *)
(***************************************************************************)

IsExtractCall == call.op = "extract_connection_options"

\* the options the Connection header named before the call
NamedOptions == {getheaders(call.before, Hdr_Connection)[k] :
                    k \in 1..Len(getheaders(call.before, Hdr_Connection))}

\* C17: after extract_connection_options the Connection header is gone, no
\* header that a Connection option named is left, and the returned map holds
\* every header removed and every keep-alive or close option named, also when no
\* header of that name existed.
C17_NoHopByHopStateRemains ==
    IsExtractCall =>
        /\ call.raised = "None"
        /\ ~HasHeader(headers, Hdr_Connection)
        /\ \A option \in NamedOptions : ~HasHeader(headers, option)
        /\ \A name \in (DOMAIN call.before \ DOMAIN headers) \ {Lower(Hdr_Connection)} :
               name \in DOMAIN call.options
        /\ \A option \in NamedOptions :
               Lower(option) \in {Tok_keep_alive, Tok_close}
                   => Lower(option) \in DOMAIN call.options

\* C18: extend_via_field leaves the Via header with the entries it held before,
\* in order, followed by the new formatted entry, however many it held.
C18_ViaKeepsPriorEntries ==
    call.op = "extend_via_field" =>
        getheaders(headers, Hdr_Via) = Append(getheaders(call.before, Hdr_Via), call.entry)

(***************************************************************************)
(* Claim about parse failures (checked under SpecRestriction)              *)
(***************************************************************************)

\* the source has more than 4 segments, or one of its supplied scopes yields no
\* plain pattern
MustNotParse(raw) ==
    \/ Len(SourceParts(raw)) > 4
    \/ \E k \in 1..3 : Len(SourceParts(raw)) > k /\ SourceScope(raw, k).patterns = << >>

\* C19: parsing fails with RestrictionError, and with no other error, exactly
\* when the source has more than 4 segments or a supplied index, type or field
\* scope yields no plain pattern; a source with a mode segment only parses.
C19_ParseFailsExactlyWhenMalformed ==
    IsPermitsCall =>
        /\ call.result \in {"True", "False", "RestrictionError"}
        /\ call.result = "RestrictionError" <=> MustNotParse(restriction.raw_restriction)

(***************************************************************************)
(* Claim about the cache lock (checked under SpecWorkers)                  *)
(***************************************************************************)

Refreshing(w) == workers[w].pc \in {"bind", "search", "store", "unbind"}

\* w is inside get_group_memberships past the Protector, or inside the write
\* context of clear_cache
InsideBackend(w) ==
    workers[w].pc \in {"lookup", "hit", "writeContext", "bind", "search", "store",
                       "unbind", "clearing"}

\* C20: a worker that refreshes the cache (bind, search, store, unbind) is
\* the one holder of the write lock throughout, and meanwhile no other worker is
\* inside get_group_memberships, reading or refreshing for any identity, or
\* inside clear_cache.
C20_RefreshExcludesOthers ==
    \A w \in Workers :
        Refreshing(w) =>
            /\ cache_lock.writers = {w}
            /\ \A v \in Workers \ {w} : ~InsideBackend(v)

\* C20 witness: worker 1 is searching the directory for alice while worker 2
\* has called get_group_memberships for bob and is held back by the lock.
C20_Witness ==
    /\ workers[1].pc = "search" /\ workers[1].name = "alice"
    /\ workers[2].pc = "protector" /\ workers[2].name = "bob"
    /\ cache_lock.writers = {1}

(***************************************************************************)
(* Further claims about populate (checked under SpecAuth)                  *)
(***************************************************************************)

\* the last call ran populate
PopulateRan == call.op = "populate" \/ (call.op = "authenticate" /\ Logged("populate"))

GroupBackendAsked == Logged("group_backend.get_group_memberships")

RoleBackendAsked == Logged("role_backend.get_role_memberships")

SameInput(a, b) ==
    a.op = b.op /\ a.index = b.index /\ a.document = b.document /\ a.field = b.field

\* C23: parsing is memoized: a call that follows another call on the same
\* Restriction finds the source parsed and does not parse it again, leaves the
\* parsed lists and the read_only flag as they were, and returns what the
\* earlier call with the same input returned.
C23_ParsedOnce ==
    [][ (IsPermitsCall /\ IsPermitsCall') =>
            /\ restriction._parsed
            /\ restriction' = restriction
            /\ SameInput(call, call') => call'.result = call.result
      ]_vars

\* C24: a call that follows a call which failed to parse raises RestrictionError
\* again, so that after a failed parse no call on the object returns true.
C24_FailedParseNeverGrants ==
    (IsPermitsCall /\ call.previous = "RestrictionError") =>
        /\ call.result = "RestrictionError"
        /\ ~restriction._parsed

\* C24 witness: permits_write has been called on "write/logs-*/+events" after an earlier
\* call on it had failed, and has failed again.
C24_Witness ==
    /\ call.op = "permits_write" /\ call.previous = "RestrictionError"
    /\ restriction.raw_restriction = Src_write_type_only_incl
    /\ call.result = "RestrictionError"

(***************************************************************************)
(* Further claims about GetIndexApiRequest.inspect (checked under          *)
(* SpecInspect)                                                            *)
(***************************************************************************)

\* the permitted-keyword records: one per (selected keyword, narrowed index
\* pattern) whose permission the client holds, in the order they are visited
PermittedRecords ==
    SelectSeq(Matrix(SelectedSettings(Keywords(request)), NarrowedIndices.val),
              LAMBDA pair : can(permissions, pair[1].permission, pair[2]))

PermittedNames == [k \in 1..Len(PermittedRecords) |-> PermittedRecords[k][1].setting]

\* the path after step 1, before any keyword suffix
PathAfterNarrowing ==
    IF NarrowedIndices.val # << >>
    THEN Replace(call.path, request.indices, to_string(NarrowedIndices.val))
    ELSE call.path

C27_DeniedLeavesPath ==
    (IsInspectCall /\ call.raised = "PermissionError") => request.path = call.path

(***************************************************************************)
(* Claim about the identity populate looks up (checked under SpecAuth)     *)
(***************************************************************************)

\* C26: whenever populate asks the group backend for a client that
\* authenticate has named, the name it looks up (client.name, the cache key and
\* the directory user name) is the client's username, also when the client
\* supplied a username but no password.
C26_LookupNameIsUsername ==
    (PopulateRan /\ GroupBackendAsked /\ client.name # NoneName)
        => client.name = client.username

(***************************************************************************)
(* Claim about searches by several workers (checked under SpecWorkers)     *)
(***************************************************************************)

\* w has missed the cache and is on its way to, or in, the directory search
Searching(w) == workers[w].pc \in {"writeContext", "bind", "search"}

====
